---- MODULE Spec2Model ----
(***************************************************************************)
(* A model of the export pipeline of DiveJump Write (bookeditor).          *)
(*                                                                         *)
(*   - the EPUB path: buildEPUB assembles the list of archive files and    *)
(*     buildZip writes them as a stored-method ZIP byte stream (crc32);    *)
(*   - the PDF path: exportPDF renders the sections and embeds the         *)
(*     pagination script, which measures the layout in three passes and    *)
(*     fills the table of contents before printing.                        *)
(*                                                                         *)
(* Text is a sequence of Unicode code points (a JS string restricted to    *)
(* the Basic Multilingual Plane without surrogates); bytes are 0..255.     *)
(* A 32-bit word that may exceed 2^31 (the CRC) is the pair <<hi, lo>> of   *)
(* its 16-bit halves.                                                      *)
(***************************************************************************)
EXTENDS Integers, Sequences, FiniteSets, TLC

VARIABLES
    book,        \* the Book snapshot handed to the exporter
    pc,          \* position of the running export
    files,       \* buildEPUB/buildZip: the list of { name, content }
    zi,          \* buildZip: index of the file the loop is at (1-based)
    parts,       \* buildZip: parts[] (local headers and data)
    centralDir,  \* buildZip: centralDir[] (central-directory records)
    offset,      \* buildZip: running byte offset
    blob,        \* the bytes of the returned Blob
    layout,      \* PDF popup: what the layout engine measures
    tocHTML,     \* PDF popup: the entries rendered into #toc-entries
    pass,        \* PDF popup: the loop variable of the pass loop
    frames,      \* PDF popup: animation frames awaited so far
    prints,      \* PDF popup: calls of window.print so far
    win,         \* exportPDF: calls of window.open, alert and document.write so far
    history,     \* PDF popup: the entries computed by each pass so far
    fileData,    \* project file: the JSON value a chosen or exported file holds
    imported,    \* importFromFile: what the promise settled with
    lastOp,      \* book store: the last action taken and the section it acted on
    allBooks,    \* book store: allBooks
    currentBookId,    \* book store: currentBookId
    activeSectionId,  \* book store: activeSectionId
    autosaveTimer,    \* EditorPane: the pending debounced autosave
    reader,      \* cover upload: the FileReader that is reading a file
    render       \* rendering of one section: its inputs and the elements it gives

vars == <<book, pc, files, zi, parts, centralDir, offset, blob,
          layout, tocHTML, pass, frames, prints, win, history, fileData, imported, lastOp,
          allBooks, currentBookId, activeSectionId, autosaveTimer, reader, render>>

zipVars == <<files, zi, parts, centralDir, offset, blob>>
pdfVars == <<layout, tocHTML, pass, frames, prints, win, history>>
ioVars == <<fileData, imported>>
libVars == <<allBooks, currentBookId, activeSectionId>>
editorVars == <<autosaveTimer, reader>>
storeVars == <<lastOp, libVars, editorVars>>
renderVars == <<render>>

\* null (a record, so that it compares with the records it stands in for)
NULL == [null |-> TRUE]

-----------------------------------------------------------------------------
(* Bounds of the model. *)

MaxFiles == 3       \* longest file list handed to buildZip directly
MaxSections == 2    \* most sections of a Book exported as EPUB
MaxPdfSections == 3 \* most sections of a Book exported as PDF

-----------------------------------------------------------------------------
(* Text constants (code points), as they appear in the source. *)

MIMETYPE_NAME == <<109, 105, 109, 101, 116, 121, 112, 101>>  \* "mimetype"
MIMETYPE_CONTENT == <<97, 112, 112, 108, 105, 99, 97, 116, 105, 111, 110, 47, 101, 112, 117, 98, 43, 122, 105, 112>>  \* "application/epub+zip"
CONTAINER_NAME == <<77, 69, 84, 65, 45, 73, 78, 70, 47, 99, 111, 110, 116, 97, 105, 110, 101, 114, 46, 120, 109, 108>>  \* "META-INF/container.xml"
OPF_NAME == <<79, 69, 66, 80, 83, 47, 99, 111, 110, 116, 101, 110, 116, 46, 111, 112, 102>>  \* "OEBPS/content.opf"
NCX_NAME == <<79, 69, 66, 80, 83, 47, 116, 111, 99, 46, 110, 99, 120>>  \* "OEBPS/toc.ncx"
NAV_NAME == <<79, 69, 66, 80, 83, 47, 110, 97, 118, 46, 120, 104, 116, 109, 108>>  \* "OEBPS/nav.xhtml"
CSS_NAME == <<79, 69, 66, 80, 83, 47, 115, 116, 121, 108, 101, 115, 47, 98, 111, 111, 107, 46, 99, 115, 115>>  \* "OEBPS/styles/book.css"
COVER_PAGE_NAME == <<79, 69, 66, 80, 83, 47, 84, 101, 120, 116, 47, 99, 111, 118, 101, 114, 46, 120, 104, 116, 109, 108>>  \* "OEBPS/Text/cover.xhtml"
IMAGES_COVER_PREFIX == <<79, 69, 66, 80, 83, 47, 73, 109, 97, 103, 101, 115, 47, 99, 111, 118, 101, 114, 46>>  \* "OEBPS/Images/cover."
TEXT_PREFIX == <<79, 69, 66, 80, 83, 47, 84, 101, 120, 116, 47>>  \* "OEBPS/Text/"
SECTION_PREFIX == <<115, 101, 99, 116, 105, 111, 110, 45>>  \* "section-"
XHTML_SUFFIX == <<46, 120, 104, 116, 109, 108>>  \* ".xhtml"
XML_PROLOG == <<60, 63, 120, 109, 108>>  \* "<?xml"
EXT_PNG == <<112, 110, 103>>  \* "png"
EXT_WEBP == <<119, 101, 98, 112>>  \* "webp"
EXT_GIF == <<103, 105, 102>>  \* "gif"
EXT_JPG == <<106, 112, 103>>  \* "jpg"

-----------------------------------------------------------------------------
(* Bytes and words. *)

RECURSIVE Pow2(_)
Pow2(n) == IF n = 0 THEN 1 ELSE 2 * Pow2(n - 1)

RECURSIVE Flatten(_)
\* The concatenation of a list of byte arrays (the Blob of its parts).
Flatten(ss) == IF ss = <<>> THEN <<>> ELSE Head(ss) \o Flatten(Tail(ss))

\* One code point as UTF-8.
Utf8Char(c) ==
    IF c < 128 THEN <<c>>
    ELSE IF c < 2048 THEN <<192 + (c \div 64), 128 + (c % 64)>>
    ELSE <<224 + (c \div 4096), 128 + ((c \div 64) % 64), 128 + (c % 64)>>

RECURSIVE Utf8(_)
\* TextEncoder.encode
Utf8(s) == IF s = <<>> THEN <<>> ELSE Utf8Char(Head(s)) \o Utf8(Tail(s))

\* DataView.setUint16(_, n, true): the low 16 bits, little-endian.
U16LE(n) == <<(n % 65536) % 256, (n % 65536) \div 256>>

\* DataView.setUint32(_, n, true) for a value below 2^31, little-endian.
U32LE(n) == <<n % 256, (n \div 256) % 256, (n \div 65536) % 256, (n \div 16777216) % 256>>

\* A 32-bit word is the pair of its high and low 16-bit halves.
Word(hi, lo) == <<hi, lo>>

ByteWord(b) == Word(0, b)

RECURSIVE Xor16(_, _)
\* The bitwise exclusive or of two numbers below 2^16.
Xor16(a, b) ==
    IF a = 0 THEN b
    ELSE IF b = 0 THEN a
    ELSE ((a + b) % 2) + 2 * Xor16(a \div 2, b \div 2)

Xor32(a, b) == Word(Xor16(a[1], b[1]), Xor16(a[2], b[2]))

\* crc >>> 1
Shr1(a) == Word(a[1] \div 2, (a[2] \div 2) + 32768 * (a[1] % 2))

\* crc & 1
Bit0(a) == a[2] % 2

\* DataView.setUint32(_, w, true) for a word given by its halves.
WordLE(w) == <<w[2] % 256, w[2] \div 256, w[1] % 256, w[1] \div 256>>

-----------------------------------------------------------------------------
(* crc32 (json.ts 497-506). *)

CRC_INIT == Word(65535, 65535)      \* 0xffffffff
\* A polynomial that differs from the code's in one bit.
CRC_POLY_Off == Word(60856, 33569)  \* 0xedb88321
CRC_POLY == Word(60856, 33568)      \* 0xedb88320

\* One round of the inner loop:  crc = crc & 1 ? (crc >>> 1) ^ POLY : crc >>> 1.
CrcRound(crc) == IF Bit0(crc) = 1 THEN Xor32(Shr1(crc), CRC_POLY) ELSE Shr1(crc)

\* One iteration of the outer loop:  crc ^= byte, then the eight rounds (j = 0..7).
CrcByte(crc, byte) ==
    CrcRound(CrcRound(CrcRound(CrcRound(
        CrcRound(CrcRound(CrcRound(CrcRound(Xor32(crc, ByteWord(byte))))))))))

RECURSIVE CrcTrace(_, _)
\* The values crc takes in  for (const byte of data): before the loop and
\* after each of its first k iterations.
CrcTrace(data, k) ==
    IF k = 0 THEN <<CRC_INIT>>
    ELSE LET before == CrcTrace(data, k - 1)
         IN  Append(before, CrcByte(before[k], data[k]))

\* The value of crc when the loop ends.
CrcLoop(data) == CrcTrace(data, Len(data))[Len(data) + 1]

\* return (crc ^ 0xffffffff) >>> 0
crc32(data) == Xor32(CrcLoop(data), CRC_INIT)

-----------------------------------------------------------------------------
(* The Book consumed by the exporters (types/index.ts). *)

SectionTypes == {"frontmatter", "chapter", "backmatter"}

\* Section content is kept by what JSON.parse makes of it: "doc" is a Tiptap
\* document, "epigraph" is { __type: 'epigraph', ... }, "" is the empty string
\* and "text" is a string that is not JSON.
Contents == {"doc", "epigraph", "", "text"}

\* A cover data URL, kept as the media type its prefix names ("" when the
\* prefix names none) and the bytes its base64 payload decodes to.
DataUrl(mime, bytes) == [mime |-> mime, payload |-> bytes]

Section(id, type, title, content) ==
    [id |-> id, type |-> type, title |-> title, content |-> content]

-----------------------------------------------------------------------------
(* How a section is classified by its title and content (json.ts 51-53,     *)
(* 140-143; pdf.ts: part_001 148-179), and the chapter counter both         *)
(* exporters keep (json.ts 404-407, part_001 241-245).                      *)

\* String.prototype.toLowerCase, left as it is.
ToLower_Identity(s) == s
\* String.prototype.toLowerCase on the Latin capitals.
ToLower(s) == [i \in 1..Len(s) |-> IF s[i] >= 65 /\ s[i] <= 90 THEN s[i] + 32 ELSE s[i]]

WhiteSpace == {9, 10, 11, 12, 13, 32, 160}

RECURSIVE TrimStart(_)
TrimStart(s) == IF s # <<>> /\ Head(s) \in WhiteSpace THEN TrimStart(Tail(s)) ELSE s

RECURSIVE TrimEnd(_)
TrimEnd(s) ==
    IF s # <<>> /\ s[Len(s)] \in WhiteSpace THEN TrimEnd(SubSeq(s, 1, Len(s) - 1)) ELSE s

\* String.prototype.trim
Trim(s) == TrimEnd(TrimStart(s))

\* sec.title.trim().toLowerCase()
NormTitle(sec) == ToLower(Trim(sec.title))

T_HALF_TITLE == <<104, 97, 108, 102, 32, 116, 105, 116, 108, 101, 32, 112, 97, 103, 101>>  \* "half title page"
T_TITLE_PAGE == <<116, 105, 116, 108, 101, 32, 112, 97, 103, 101>>  \* "title page"
T_COPYRIGHT == <<99, 111, 112, 121, 114, 105, 103, 104, 116>>  \* "copyright"
T_DEDICATION == <<100, 101, 100, 105, 99, 97, 116, 105, 111, 110>>  \* "dedication"
T_EPIGRAPH == <<101, 112, 105, 103, 114, 97, 112, 104>>  \* "epigraph"
T_TOC == <<116, 97, 98, 108, 101, 32, 111, 102, 32, 99, 111, 110, 116, 101, 110, 116, 115>>  \* "table of contents"

\* The content test, were the tag never looked at.
HasEpigraphType_Never(content) == FALSE

\* JSON.parse(sec.content)?.__type === 'epigraph', false when parsing throws
HasEpigraphType(content) == content = "epigraph"

\* isEpigraphSec (part_001 148-151)
isEpigraphSec(sec) ==
    \/ sec.type = "frontmatter" /\ NormTitle(sec) = T_EPIGRAPH
    \/ HasEpigraphType(sec.content)

\* isTocSection (part_001 153-155)
isTocSection(sec) == sec.type = "frontmatter" /\ NormTitle(sec) = T_TOC

\* isTitlePageSection (part_001 157-159)
isTitlePageSection(sec) == sec.type = "frontmatter" /\ NormTitle(sec) = T_TITLE_PAGE

\* TOC_EXCLUDED (part_001 172-174)
TOC_EXCLUDED == {T_HALF_TITLE, T_TITLE_PAGE, T_COPYRIGHT, T_DEDICATION, T_EPIGRAPH, T_TOC}

\* shouldIncludeInToc (part_001 176-179)
shouldIncludeInToc(sec) ==
    IF isEpigraphSec(sec) THEN FALSE ELSE NormTitle(sec) \notin TOC_EXCLUDED

RECURSIVE ChapterCount_Listed(_, _)
\* A counter that passes over the chapters left out of the table of contents.
ChapterCount_Listed(secs, i) ==
    IF i = 0 THEN 0
    ELSE ChapterCount_Listed(secs, i - 1)
         + (IF secs[i].type = "chapter" /\ shouldIncludeInToc(secs[i]) THEN 1 ELSE 0)

RECURSIVE ChapterCount(_, _)
\* chapterCount after the first i sections (part_001 241-243).
ChapterCount(secs, i) ==
    IF i = 0 THEN 0
    ELSE ChapterCount(secs, i - 1) + (IF secs[i].type = "chapter" THEN 1 ELSE 0)

-----------------------------------------------------------------------------
(* buildEPUB (json.ts 383-415) and its helpers. *)

\* sectionId, sectionFilename (json.ts 132-138)
sectionId(sec) == SECTION_PREFIX \o sec.id
sectionFilename(sec) == sectionId(sec) \o XHTML_SUFFIX

\* coverMimeType (json.ts 166-169): the media type of the prefix, else image/jpeg.
coverMimeType(dataUrl) == IF dataUrl.mime = "" THEN "image/jpeg" ELSE dataUrl.mime

\* coverExtension (json.ts 171-176)
coverExtension(mimeType) ==
    IF mimeType = "image/png" THEN EXT_PNG
    ELSE IF mimeType = "image/webp" THEN EXT_WEBP
    ELSE IF mimeType = "image/gif" THEN EXT_GIF
    ELSE EXT_JPG

\* dataUrlToBytes (json.ts 199-205)
dataUrlToBytes(dataUrl) == dataUrl.payload

StringFile(name, text) == [name |-> name, kind |-> "string", content |-> text]
BytesFile(name, bytes) == [name |-> name, kind |-> "bytes", content |-> bytes]

\* The generated documents (container.xml, content.opf, toc.ncx, nav.xhtml,
\* cover.xhtml, the section pages) are kept as their XML prolog followed by the
\* text they interpolate; the archive treats them as opaque data.
XmlDocument(text) == XML_PROLOG \o text

\* String(n) for n >= 0
RECURSIVE Decimal(_)
Decimal(n) == IF n < 10 THEN <<48 + n>> ELSE Decimal(n \div 10) \o <<48 + (n % 10)>>

CHAPTER_NUMBER_OPEN == <<60, 112, 32, 99, 108, 97, 115, 115, 61, 34, 99, 104, 97, 112, 116, 101, 114, 45, 110, 117, 109, 98, 101, 114, 34, 62>>
CHAPTER_NUMBER_CLOSE == <<60, 47, 112, 62>>
EPIGRAPH_TITLE == <<69, 112, 105, 103, 114, 97, 112, 104>>

\* num (json.ts 407): 0 stands for undefined.
EpubNum(b, i) ==
    IF b.chapterNumbers /\ b.sections[i].type = "chapter" THEN ChapterCount(b.sections, i) ELSE 0

\* numHtml (json.ts 208)
NumHtml(chapterNum) ==
    IF chapterNum # 0 THEN CHAPTER_NUMBER_OPEN \o Decimal(chapterNum) \o CHAPTER_NUMBER_CLOSE
    ELSE <<>>

\* buildEpigraphXHTML (json.ts 145-164)
buildEpigraphXHTML(sec) == XmlDocument(EPIGRAPH_TITLE \o sectionId(sec))

\* buildChapterXHTML (json.ts 207-226)
buildChapterXHTML(sec, chapterNum) ==
    XmlDocument(sec.title \o sectionId(sec) \o NumHtml(chapterNum))

\* The file of section i (json.ts 405-411).
SectionFile(b, i) ==
    LET sec == b.sections[i]
    IN  StringFile(TEXT_PREFIX \o sectionFilename(sec),
                   IF isEpigraphSec(sec) THEN buildEpigraphXHTML(sec)
                   ELSE buildChapterXHTML(sec, EpubNum(b, i)))

\* The sections in the order of their order fields, ties by array position.
OrderRank(secs, i) ==
    Cardinality({j \in 1..Len(secs) :
                    \/ secs[j].order < secs[i].order
                    \/ secs[j].order = secs[i].order /\ j < i}) + 1
SortByOrder(secs) ==
    [k \in 1..Len(secs) |-> secs[CHOOSE i \in 1..Len(secs) : OrderRank(secs, i) = k]]

\* The files of the first n sections, were the sections walked by order field.
SectionFiles_ByOrder(b, n) ==
    [k \in 1..n |-> SectionFile([b EXCEPT !.sections = SortByOrder(b.sections)], k)]

RECURSIVE SectionFiles(_, _)
\* The files of the first n sections.
SectionFiles(b, n) ==
    IF n = 0 THEN <<>> ELSE Append(SectionFiles(b, n - 1), SectionFile(b, n))

CoverFiles(b) ==
    IF b.coverImage # NULL
    THEN << StringFile(COVER_PAGE_NAME, XmlDocument(coverExtension(coverMimeType(b.coverImage)))),
            BytesFile(IMAGES_COVER_PREFIX \o coverExtension(coverMimeType(b.coverImage)),
                      dataUrlToBytes(b.coverImage)) >>
    ELSE <<>>

\* The fixed head of the list, with the container descriptor pushed first.
EpubHeadFiles_ContainerFirst(b) ==
    << StringFile(CONTAINER_NAME, XmlDocument(<<>>)),
       StringFile(MIMETYPE_NAME, MIMETYPE_CONTENT),
       StringFile(OPF_NAME, XmlDocument(b.title)),
       StringFile(NCX_NAME, XmlDocument(b.title)),
       StringFile(NAV_NAME, XmlDocument(<<>>)),
       StringFile(CSS_NAME, <<10>>) >>

\* The fixed head of the list (json.ts 386-395).
EpubHeadFiles(b) ==
    << StringFile(MIMETYPE_NAME, MIMETYPE_CONTENT),
       StringFile(CONTAINER_NAME, XmlDocument(<<>>)),
       StringFile(OPF_NAME, XmlDocument(b.title)),
       StringFile(NCX_NAME, XmlDocument(b.title)),
       StringFile(NAV_NAME, XmlDocument(<<>>)),
       StringFile(CSS_NAME, <<10>>) >>

\* The whole list buildEPUB hands to buildZip.
EpubFiles(b) == EpubHeadFiles(b) \o CoverFiles(b) \o SectionFiles(b, Len(b.sections))

-----------------------------------------------------------------------------
(* buildZip (json.ts 418-495). *)

LOCAL_SIG == \h04034b50
CENTRAL_SIG == \h02014b50
EOCD_SIG == \h06054b50
VERSION_NEEDED == 20

\* typeof file.content === 'string' ? enc.encode(file.content) : file.content
DataBytes(file) == IF file.kind = "string" THEN Utf8(file.content) ELSE file.content

\* The local file header with the file name (json.ts 431-444).
LocalHeader(nameBytes, crc, dataLen) ==
    U32LE(LOCAL_SIG) \o U16LE(VERSION_NEEDED) \o U16LE(0) \o U16LE(0) \o U16LE(0) \o U16LE(0)
    \o WordLE(crc) \o U32LE(dataLen) \o U32LE(dataLen)
    \o U16LE(Len(nameBytes)) \o U16LE(0) \o nameBytes

\* A central-directory record that stores an all-zero CRC.
CdEntry_NoCrc(nameBytes, crc, dataLen, off) ==
    U32LE(CENTRAL_SIG) \o U16LE(VERSION_NEEDED) \o U16LE(VERSION_NEEDED)
    \o U16LE(0) \o U16LE(0) \o U16LE(0) \o U16LE(0)
    \o <<0, 0, 0, 0>> \o U32LE(dataLen) \o U32LE(dataLen)
    \o U16LE(Len(nameBytes)) \o U16LE(0) \o U16LE(0) \o U16LE(0) \o U16LE(0)
    \o U32LE(0) \o U32LE(off) \o nameBytes

\* The central-directory record with the file name (json.ts 450-469).
CdEntry(nameBytes, crc, dataLen, off) ==
    U32LE(CENTRAL_SIG) \o U16LE(VERSION_NEEDED) \o U16LE(VERSION_NEEDED)
    \o U16LE(0) \o U16LE(0) \o U16LE(0) \o U16LE(0)
    \o WordLE(crc) \o U32LE(dataLen) \o U32LE(dataLen)
    \o U16LE(Len(nameBytes)) \o U16LE(0) \o U16LE(0) \o U16LE(0) \o U16LE(0)
    \o U32LE(0) \o U32LE(off) \o nameBytes

\* An offset that advances past the local header only.
NextOffset_HeaderOnly(off, lhBytes, dataBytes) == off + Len(lhBytes)

\* offset += lhBytes.length + dataBytes.length (json.ts 472)
NextOffset(off, lhBytes, dataBytes) == off + Len(lhBytes) + Len(dataBytes)

RECURSIVE SumLen(_)
\* centralDir.reduce((s, b) => s + b.length, 0)
SumLen(ss) == IF ss = <<>> THEN 0 ELSE Len(Head(ss)) + SumLen(Tail(ss))

\* An end record whose second count leaves out the last entry.
Eocd_ShortCount(n, cdSize, cdStart) ==
    U32LE(EOCD_SIG) \o U16LE(0) \o U16LE(0) \o U16LE(n) \o U16LE(IF n > 0 THEN n - 1 ELSE 0)
    \o U32LE(cdSize) \o U32LE(cdStart) \o U16LE(0)

\* The end-of-central-directory record (json.ts 479-487).
Eocd(n, cdSize, cdStart) ==
    U32LE(EOCD_SIG) \o U16LE(0) \o U16LE(0) \o U16LE(n) \o U16LE(n)
    \o U32LE(cdSize) \o U32LE(cdStart) \o U16LE(0)

\* A directory size that counts the fixed parts of the records only.
CdSize_FixedOnly(cd) == 46 * Len(cd)

\* cdSize (json.ts 476)
CdSize(cd) == SumLen(cd)

\* buildEPUB up to its call of buildZip, and the first lines of buildZip.
BuildEPUB ==
    /\ pc = "idle"
    /\ files' = EpubFiles(book)
    /\ zi' = 1
    /\ parts' = <<>>
    /\ centralDir' = <<>>
    /\ offset' = 0
    /\ pc' = "zip"
    /\ UNCHANGED <<book, blob, pdfVars, ioVars, storeVars, renderVars>>

\* One iteration of  for (const file of files)  (json.ts 424-473).
ZipEntry ==
    /\ pc = "zip"
    /\ zi <= Len(files)
    /\ LET file      == files[zi]
           nameBytes == Utf8(file.name)
           dataBytes == DataBytes(file)
           crc       == crc32(dataBytes)
           lhBytes   == LocalHeader(nameBytes, crc, Len(dataBytes))
           cdBytes   == CdEntry(nameBytes, crc, Len(dataBytes), offset)
       IN  /\ parts' = parts \o <<lhBytes, dataBytes>>
           /\ centralDir' = Append(centralDir, cdBytes)
           /\ offset' = NextOffset(offset, lhBytes, dataBytes)
    /\ zi' = zi + 1
    /\ UNCHANGED <<book, pc, files, blob, pdfVars, ioVars, storeVars, renderVars>>

\* After the loop: the end record and the Blob (json.ts 475-494).
ZipFinish ==
    /\ pc = "zip"
    /\ zi > Len(files)
    /\ LET cdStart == offset
           cdSize  == CdSize(centralDir)
       IN  blob' = Flatten(parts) \o Flatten(centralDir) \o Eocd(Len(files), cdSize, cdStart)
    /\ pc' = "done"
    /\ UNCHANGED <<book, files, zi, parts, centralDir, offset, pdfVars, ioVars, storeVars, renderVars>>

-----------------------------------------------------------------------------
(* Inputs of the archive builder. *)

\* The code points used: 97 is "a", 233 is U+00E9 (two bytes in UTF-8) and
\* 8212 is U+2014 (three bytes in UTF-8).

\* File names and contents handed to buildZip directly.
ZipNames == { <<97>>, <<233, 97>> }
ZipContents ==
    { [kind |-> "string", content |-> <<>>],
      [kind |-> "string", content |-> <<8212>>],
      [kind |-> "bytes", content |-> <<0>>],
      [kind |-> "bytes", content |-> <<255, 80, 75>>] }
ZipFile == { [name |-> n, kind |-> c.kind, content |-> c.content] : n \in ZipNames, c \in ZipContents }

RECURSIVE SeqsUpTo(_, _)
\* The sequences over S of length at most n.
SeqsUpTo(S, n) ==
    IF n = 0 THEN { <<>> }
    ELSE SeqsUpTo(S, n - 1) \cup { Append(s, x) : s \in { t \in SeqsUpTo(S, n - 1) : Len(t) = n - 1 }, x \in S }

\* Books exported as EPUB.
EpubSection ==
    { Section(<<97>>, "chapter", <<97>>, "doc"),
      Section(<<99>>, "chapter", <<67, 111, 112, 121, 114, 105, 103, 104, 116>>, "doc"),  \* "Copyright"
      Section(<<233>>, "frontmatter", <<8212, 97>>, "epigraph"),
      Section(<<97, 97>>, "backmatter", <<>>, "") }
EpubCover ==
    { NULL, DataUrl("image/png", <<137, 80, 78, 71>>), DataUrl("", <<255, 216>>),
      DataUrl("image/svg+xml", <<>>) }
EpubBook ==
    { [title |-> t, template |-> "reedsy", chapterNumbers |-> n, sections |-> s,
       coverImage |-> c] :
        t \in { <<233>> }, n \in BOOLEAN,
        s \in SeqsUpTo(EpubSection, MaxSections), c \in EpubCover }

NoLayout == [none |-> TRUE]

\* No window asked for, no alert shown, no document written.
NoWindow == [opens |-> 0, alerts |-> <<>>, writes |-> 0]

PdfIdle ==
    /\ layout = NoLayout
    /\ win = NoWindow
    /\ tocHTML = <<>>
    /\ pass = 0
    /\ frames = 0
    /\ prints = 0
    /\ history = <<>>

NoFile == [none |-> TRUE]
NoResult == [none |-> TRUE]

IoIdle ==
    /\ fileData = NoFile
    /\ imported = NoResult

\* No store action has run yet.
NoOp == [op |-> "none", id |-> <<>>, was |-> NULL, n |-> 0]
\* null where an id is expected (ids are never empty).
NoId == <<>>
\* autosaveTimer.current === null; no FileReader at work.
NoTimer == [none |-> TRUE]
NoReader == [none |-> TRUE]
EditorIdle == autosaveTimer = NoTimer /\ reader = NoReader
StoreIdle ==
    /\ lastOp = NoOp
    /\ allBooks = <<>>
    /\ currentBookId = NoId
    /\ activeSectionId = NoId
    /\ EditorIdle

\* No section is being rendered.
NoRender == [none |-> TRUE]
RenderIdle == render = NoRender

ZipIdle ==
    /\ files = <<>>
    /\ zi = 1
    /\ parts = <<>>
    /\ centralDir = <<>>
    /\ offset = 0
    /\ blob = <<>>

\* buildZip as a function of its argument: any short list of files.
InitZip ==
    /\ IoIdle
    /\ StoreIdle
    /\ RenderIdle
    /\ book = NULL
    /\ pc = "zip"
    /\ files \in SeqsUpTo(ZipFile, MaxFiles)
    /\ zi = 1
    /\ parts = <<>>
    /\ centralDir = <<>>
    /\ offset = 0
    /\ blob = <<>>
    /\ PdfIdle

NextZip == ZipEntry \/ ZipFinish

SpecZip == InitZip /\ [][NextZip]_vars

\* exportEPUB of a Book.
InitEpub ==
    /\ IoIdle
    /\ StoreIdle
    /\ RenderIdle
    /\ book \in EpubBook
    /\ pc = "idle"
    /\ ZipIdle
    /\ PdfIdle

NextEpub == BuildEPUB \/ ZipEntry \/ ZipFinish

SpecEpub == InitEpub /\ [][NextEpub]_vars

-----------------------------------------------------------------------------
(* exportPDF (pdf.ts, the current revision: part_001 lines 109-457).        *)
(* Lengths are in tenths of a CSS pixel where the code computes with        *)
(* fractions (1in = 96px), and in whole pixels where the DOM reports them   *)
(* (offsetHeight).                                                          *)

\* for (var pass = 0; pass < 3; pass++)
PASSES == 3

\* A loop that makes a single pass, and one that makes two.
MorePasses_Once(p) == p < 1
MorePasses_Twice(p) == p < 2
\* The loop test  pass < 3.
MorePasses(p) == p < PASSES

\* parseHeightPx(templatePageSize(template).height), in tenths of a pixel
PageHeightPx10(template) == IF template = "classic" THEN 11 * 960 ELSE 8 * 960

\* parseMarginsPx(templateMargins(template)).top (= .bottom), in tenths of a pixel
MarginTopPx10(template) ==
    IF template = "classic" THEN 720          \* 0.75in
    ELSE IF template = "romance" THEN 576     \* 0.6in 0.5in
    ELSE 600                                  \* 0.625in 0.5in

\* contentHeightPx = pageHeightPx - marginsPx.top - marginsPx.bottom
ContentHeightPx10(template) ==
    PageHeightPx10(template) - MarginTopPx10(template) - MarginTopPx10(template)

\* An element the script selects: the .cover-page div or a section.chapter.
\* sec is the index of the section it renders (0 for the cover); hasTocTitle
\* and tocTitle are the data-toc-title attribute, tocChapter the
\* data-toc-chapter attribute (0 when absent), number the chapter number shown
\* above the title (0 when there is none).
Element(cls, id, sec, hasTocTitle, tocTitle, tocChapter, number) ==
    [cls |-> cls, id |-> id, sec |-> sec, hasTocTitle |-> hasTocTitle,
     tocTitle |-> tocTitle, tocChapter |-> tocChapter, number |-> number]

\* sectionToHTML (part_001 185-222); i is the index of sec.
sectionToHTML(sec, i, displayChapterNum, tocChapterNum) ==
    IF isTitlePageSection(sec)
    THEN Element("chapter title-page-section", "", i, FALSE, <<>>, 0, 0)
    ELSE IF isTocSection(sec)
    THEN Element("chapter toc-section", "toc-section", i, FALSE, <<>>, 0, 0)
    ELSE IF isEpigraphSec(sec)
    THEN Element("chapter epigraph-section", "", i, FALSE, <<>>, 0, 0)
    ELSE IF shouldIncludeInToc(sec)
         THEN Element("chapter", "", i, TRUE, sec.title, tocChapterNum, displayChapterNum)
         ELSE Element("chapter", "", i, FALSE, <<>>, 0, displayChapterNum)

\* displayNum (part_001 244): 0 stands for undefined.
DisplayNum(b, i) ==
    IF b.chapterNumbers /\ b.sections[i].type = "chapter" THEN ChapterCount(b.sections, i) ELSE 0

\* tocNum (part_001 245): 0 stands for undefined.
TocNum(secs, i) == IF secs[i].type = "chapter" THEN ChapterCount(secs, i) ELSE 0

\* The body of the document exportPDF writes: coverHTML, then sectionsHTML.
BodyElements(b) ==
    (IF b.coverImage # NULL THEN << Element("cover-page", "", 0, FALSE, <<>>, 0, 0) >> ELSE <<>>)
    \o [i \in 1..Len(b.sections) |->
          sectionToHTML(b.sections[i], i, DisplayNum(b, i), TocNum(b.sections, i))]

\* A book taken to have a table of contents whatever its sections.
HasToc_Always(b) == TRUE
\* hasToc (part_001 234)
HasToc(b) == \E i \in 1..Len(b.sections) : isTocSection(b.sections[i])

\* document.getElementById('toc-section'): the index of the first element with
\* that id, 0 when there is none.
TocSectionIndex(nodes) ==
    IF \E i \in 1..Len(nodes) : nodes[i].id = "toc-section"
    THEN CHOOSE i \in 1..Len(nodes) :
            /\ nodes[i].id = "toc-section"
            /\ \A j \in 1..(i - 1) : nodes[j].id # "toc-section"
    ELSE 0

\* The layout engine. The popup's style sheet (part_001 392-423) lays each
\* .toc-entry out as a non-wrapping flex row whose title block and page number
\* do not shrink, so the height of an entry is that of its title block: the
\* title, and the "Chapter n" label above it when the entry has one. The page
\* number does not enter it.
EntryHeight(lay, e) == lay.entryH + (IF e.chapter # 0 THEN lay.labelH ELSE 0)

RECURSIVE EntriesHeight(_, _)
EntriesHeight(lay, entries) ==
    IF entries = <<>> THEN 0
    ELSE EntryHeight(lay, Head(entries)) + EntriesHeight(lay, Tail(entries))

\* sec.offsetHeight of element i with the entries toc rendered into #toc-entries.
OffsetHeight(lay, nodes, toc, i) ==
    IF nodes[i].cls = "cover-page" THEN lay.coverH
    ELSE IF i = TocSectionIndex(nodes) THEN lay.heights[nodes[i].sec] + EntriesHeight(lay, toc)
    ELSE lay.heights[nodes[i].sec]

\* Math.ceil(h / CONTENT_H) for h >= 0, CONTENT_H given in tenths of a pixel.
Ceil(h, contentH10) == ((10 * h) + contentH10 - 1) \div contentH10

Max(a, b) == IF a >= b THEN a ELSE b

\* A page count that measures the cover like any other element.
PagesUsed_CoverMeasured(isCover, h, contentH10) == Max(1, Ceil(h, contentH10))

\* pagesUsed (part_001 287)
PagesUsed(isCover, h, contentH10) == IF isCover THEN 1 ELSE Max(1, Ceil(h, contentH10))

TocEntry(title, chapter, page) == [title |-> title, chapter |-> chapter, page |-> page]

RECURSIVE ComputeLoop(_, _, _, _, _, _)
\* The loop of computeEntries from element i on (part_001 281-298); hs[i] is
\* the offsetHeight of element i.
ComputeLoop(nodes, hs, contentH10, i, page, entries) ==
    IF i > Len(nodes) THEN entries
    ELSE LET sec       == nodes[i]
             isCover   == sec.cls = "cover-page"
             isToc     == i = TocSectionIndex(nodes)
             pagesUsed == PagesUsed(isCover, hs[i], contentH10)
             title     == sec.tocTitle
             pushed    == IF ~isCover /\ ~isToc /\ sec.hasTocTitle /\ title # <<>>
                          THEN Append(entries, TocEntry(title, sec.tocChapter, page))
                          ELSE entries
         IN  ComputeLoop(nodes, hs, contentH10, i + 1, page + pagesUsed, pushed)

\* computeEntries (part_001 275-301)
computeEntries(nodes, hs, contentH10) == ComputeLoop(nodes, hs, contentH10, 1, 1, <<>>)

\* What the script measures when toc is what #toc-entries holds.
Measure(lay, nodes, toc) == [i \in 1..Len(nodes) |-> OffsetHeight(lay, nodes, toc, i)]

\* One pass on a layout whose #toc-entries holds toc: the entries it renders.
PassResult(b, lay, toc) ==
    computeEntries(BodyElements(b), Measure(lay, BodyElements(b), toc),
                   ContentHeightPx10(b.template))

\* alert('Please allow popups to export as PDF.') (part_001 453)
ALLOW_POPUPS == "Please allow popups to export as PDF."

\* The end of exportPDF, were a blocked popup passed over in silence.
AfterOpen_Silent(printWindow, b, w) ==
    IF ~printWindow
    THEN [pc |-> "blocked", win |-> [w EXCEPT !.opens = @ + 1]]
    ELSE [pc  |-> IF HasToc(b) THEN "fonts" ELSE "timer",
          win |-> [w EXCEPT !.opens = @ + 1, !.writes = @ + 1]]

\* The end of exportPDF (part_001 452-456): printWindow is what window.open
\* returned, FALSE for null. Gives the position of the export and the calls
\* made on the window.
AfterOpen(printWindow, b, w) ==
    IF ~printWindow
    THEN [pc |-> "blocked", win |-> [w EXCEPT !.opens = @ + 1, !.alerts = Append(@, ALLOW_POPUPS)]]
    ELSE [pc  |-> IF HasToc(b) THEN "fonts" ELSE "timer",
          win |-> [w EXCEPT !.opens = @ + 1, !.writes = @ + 1]]

\* exportPDF: window.open, document.write (part_001 452-456). A blocked popup
\* ends the export; otherwise the popup runs the embedded script.
ExportPDF ==
    /\ pc = "idle"
    /\ \E printWindow \in BOOLEAN :
          LET r == AfterOpen(printWindow, book, win)
          IN  pc' = r.pc /\ win' = r.win
    /\ UNCHANGED <<book, zipVars, layout, tocHTML, pass, frames, prints, history, ioVars, storeVars, renderVars>>

\* await document.fonts.ready; then the lookup of #toc-entries (part_001 264-267).
FontsReady ==
    /\ pc = "fonts"
    /\ IF TocSectionIndex(BodyElements(book)) = 0
       THEN prints' = prints + 1 /\ pc' = "printed"
       ELSE prints' = prints /\ pc' = "pass"
    /\ UNCHANGED <<book, zipVars, layout, tocHTML, pass, frames, win, history, ioVars, storeVars, renderVars>>

\* tocEntries.innerHTML = renderEntries(computeEntries()) (part_001 325)
Pass ==
    /\ pc = "pass"
    /\ MorePasses(pass)
    /\ LET hs      == Measure(layout, BodyElements(book), tocHTML)
           entries == computeEntries(BodyElements(book), hs, ContentHeightPx10(book.template))
       IN  /\ tocHTML' = entries
           /\ history' = Append(history, [entries |-> entries, heights |-> hs, frames |-> frames])
    /\ pc' = "raf1"
    /\ UNCHANGED <<book, zipVars, layout, pass, frames, prints, win, ioVars, storeVars, renderVars>>

\* The first requestAnimationFrame callback (part_001 327).
Frame1 ==
    /\ pc = "raf1"
    /\ frames' = frames + 1
    /\ pc' = "raf2"
    /\ UNCHANGED <<book, zipVars, layout, tocHTML, pass, prints, win, history, ioVars, storeVars, renderVars>>

\* The second requestAnimationFrame callback resolves the promise; pass++ and
\* the loop test (part_001 324-328), then setTimeout(..., 400) (part_001 330).
Frame2 ==
    /\ pc = "raf2"
    /\ frames' = frames + 1
    /\ pass' = pass + 1
    /\ pc' = IF MorePasses(pass + 1) THEN "pass" ELSE "timer"
    /\ UNCHANGED <<book, zipVars, layout, tocHTML, prints, win, history, ioVars, storeVars, renderVars>>

\* The timer fires: window.print() (part_001 330, 332).
TimerPrint ==
    /\ pc = "timer"
    /\ prints' = prints + 1
    /\ pc' = "printed"
    /\ UNCHANGED <<book, zipVars, layout, tocHTML, pass, frames, win, history, ioVars, storeVars, renderVars>>

ScriptStep == FontsReady \/ Pass \/ Frame1 \/ Frame2 \/ TimerPrint

-----------------------------------------------------------------------------
(* Books exported as PDF, each section with the height the popup's layout   *)
(* gives its element (the table of contents: its height while empty).       *)

Measured(sec, h) == [sec |-> sec, h |-> h]

PdfCase ==
    { Measured(Section(<<116>>, "frontmatter",
                       <<84, 97, 98, 108, 101, 32, 111, 102, 32, 67, 111, 110, 116, 101, 110, 116, 115>>,
                       "doc"), 600),                                       \* "Table of Contents"
      Measured(Section(<<99>>, "frontmatter",
                       <<67, 111, 112, 121, 114, 105, 103, 104, 116>>, "doc"), 650),  \* "Copyright"
      Measured(Section(<<49>>, "chapter", <<79, 110, 101>>, "doc"), 1300),            \* "One"
      Measured(Section(<<120>>, "chapter",
                       <<99, 79, 80, 89, 114, 73, 71, 72, 84>>, "text"), 600),        \* "cOPYrIGHT"
      Measured(Section(<<101>>, "chapter", <<>>, "doc"), 0),                          \* ""
      Measured(Section(<<103>>, "chapter", <<79, 110, 101>>, "epigraph"), 700),       \* "One"
      Measured(Section(<<105>>, "backmatter", <<73, 110, 100, 101, 120>>, ""), 100),  \* "Index"
      Measured(Section(<<111>>, "frontmatter", T_TOC, "doc"), 640) }                   \* "table of contents"

Templates == {"reedsy", "classic", "romance"}

PdfCover == { NULL, DataUrl("image/png", <<137, 80, 78, 71>>) }

\* The layout of the popup for a book of template t with the sections cases:
\* the cover fills one page (height: ${height}); an entry of the table of
\* contents takes entryH pixels, and labelH more under a chapter label.
PdfLayout(t, cases) ==
    [heights |-> [i \in 1..Len(cases) |-> cases[i].h],
     coverH  |-> PageHeightPx10(t) \div 10,
     entryH  |-> 60,
     labelH  |-> 20]

InitPdf ==
    /\ pc = "idle"
    /\ IoIdle
    /\ StoreIdle
    /\ RenderIdle
    /\ ZipIdle
    /\ \E t \in Templates, c \in PdfCover, cases \in SeqsUpTo(PdfCase, MaxPdfSections) :
          /\ book = [title |-> <<97>>, template |-> t, chapterNumbers |-> FALSE,
                     coverImage |-> c,
                     sections |-> [i \in 1..Len(cases) |-> cases[i].sec]]
          /\ layout = PdfLayout(t, cases)
    /\ win = NoWindow
    /\ tocHTML = <<>>
    /\ pass = 0
    /\ frames = 0
    /\ prints = 0
    /\ history = <<>>

NextPdf == ExportPDF \/ FontsReady \/ Pass \/ Frame1 \/ Frame2 \/ TimerPrint

SpecPdf == InitPdf /\ [][NextPdf]_vars

-----------------------------------------------------------------------------
(* Reading an archive back, as an unzip tool does. Positions are byte       *)
(* offsets from the start of the archive (0-based).                         *)

Bytes(b, p, n) == SubSeq(b, p + 1, p + n)
RdU16(b, p) == b[p + 1] + 256 * b[p + 2]
\* A 32-bit field as a number; -1 when it does not fit a signed 32-bit integer.
RdU32(b, p) ==
    IF b[p + 4] >= 128 THEN -1
    ELSE b[p + 1] + 256 * b[p + 2] + 65536 * b[p + 3] + 16777216 * b[p + 4]

IsLocalAt(b, p) == p >= 0 /\ p + 30 <= Len(b) /\ Bytes(b, p, 4) = <<80, 75, 3, 4>>
IsCentralAt(b, p) == p >= 0 /\ p + 46 <= Len(b) /\ Bytes(b, p, 4) = <<80, 75, 1, 2>>
IsEocdAt(b, p) == p >= 0 /\ p + 22 <= Len(b) /\ Bytes(b, p, 4) = <<80, 75, 5, 6>>

\* The size of the local entry at p: header, name, extra field and data.
LocalSize(b, p) == 30 + RdU16(b, p + 26) + RdU16(b, p + 28) + RdU32(b, p + 18)
\* The size of the central record at p: header, name, extra field and comment.
CentralSize(b, p) == 46 + RdU16(b, p + 28) + RdU16(b, p + 30) + RdU16(b, p + 32)

RECURSIVE LocalsFrom(_, _)
\* The positions of the local file headers met walking the archive from p.
LocalsFrom(b, p) ==
    IF IsLocalAt(b, p) /\ RdU32(b, p + 18) >= 0
    THEN <<p>> \o LocalsFrom(b, p + LocalSize(b, p))
    ELSE <<>>

RECURSIVE LocalsEnd(_, _)
\* The position at which that walk stops.
LocalsEnd(b, p) ==
    IF IsLocalAt(b, p) /\ RdU32(b, p + 18) >= 0
    THEN LocalsEnd(b, p + LocalSize(b, p))
    ELSE p

RECURSIVE CentralsFrom(_, _)
\* The positions of the central-directory records met walking from p.
CentralsFrom(b, p) ==
    IF IsCentralAt(b, p)
    THEN <<p>> \o CentralsFrom(b, p + CentralSize(b, p))
    ELSE <<>>

Locals(b) == LocalsFrom(b, 0)
Centrals(b) == CentralsFrom(b, LocalsEnd(b, 0))
EocdPos(b) == Len(b) - 22

LocalName(b, p) == Bytes(b, p + 30, RdU16(b, p + 26))
LocalData(b, p) == Bytes(b, p + 30 + RdU16(b, p + 26) + RdU16(b, p + 28), RdU32(b, p + 18))
CentralName(b, p) == Bytes(b, p + 46, RdU16(b, p + 28))

-----------------------------------------------------------------------------
(* The standard CRC-32 (ISO-HDLC), stated independently of the code: the    *)
(* polynomial 0x04C11DB7 applied most-significant bit first to a register   *)
(* initialised to 0xFFFFFFFF, input bytes and the result reflected, the     *)
(* result XORed with 0xFFFFFFFF. 0xEDB88320 is the reflection of 0x04C11DB7.*)

RECURSIVE Reflect(_, _)
\* The low n bits of x in reverse order.
Reflect(x, n) == IF n = 0 THEN 0 ELSE (x % 2) * Pow2(n - 1) + Reflect(x \div 2, n - 1)

Shl1(w) == Word(((2 * w[1]) % 65536) + (w[2] \div 32768), (2 * w[2]) % 65536)
StdRound(r) ==
    IF r[1] \div 32768 = 1 THEN Xor32(Shl1(r), Word(\h04C1, \h1DB7)) ELSE Shl1(r)
StdByte(r, byte) ==
    StdRound(StdRound(StdRound(StdRound(
        StdRound(StdRound(StdRound(StdRound(Xor32(r, Word(256 * Reflect(byte, 8), 0))))))))))

RECURSIVE StdTrace(_, _)
StdTrace(data, k) ==
    IF k = 0 THEN << Word(65535, 65535) >>
    ELSE LET before == StdTrace(data, k - 1)
         IN  Append(before, StdByte(before[k], data[k]))

StdCrc32(data) ==
    LET r == StdTrace(data, Len(data))[Len(data) + 1]
    IN  Xor32(Word(Reflect(r[2], 16), Reflect(r[1], 16)), Word(65535, 65535))

\* The published check values: "123456789" gives 0xCBF43926, the empty
\* input gives 0.
StdCrc32CheckValues ==
    /\ StdCrc32(<<49, 50, 51, 52, 53, 54, 55, 56, 57>>) = Word(\hCBF4, \h3926)
    /\ StdCrc32(<<>>) = Word(0, 0)

-----------------------------------------------------------------------------
(* Properties of the archive. *)

RECURSIVE EntryLengths(_)
\* The sum over a list of files of 30 + name length + data length.
EntryLengths(fs) ==
    IF fs = <<>> THEN 0
    ELSE 30 + Len(Utf8(Head(fs).name)) + Len(DataBytes(Head(fs))) + EntryLengths(Tail(fs))

RECURSIVE RecordLengths(_)
\* The sum over a list of files of 46 + name length.
RecordLengths(fs) ==
    IF fs = <<>> THEN 0 ELSE 46 + Len(Utf8(Head(fs).name)) + RecordLengths(Tail(fs))

\* C1: the first entry of the archive buildEPUB returns is named exactly
\* "mimetype", holds the ASCII bytes "application/epub+zip", is stored with
\* method 0, and its local header starts at offset 0 of the archive.
C1_MimetypeFirst ==
    pc = "done" =>
        /\ IsLocalAt(blob, 0)
        /\ RdU16(blob, 8) = 0
        /\ LocalName(blob, 0) = MIMETYPE_NAME
        /\ RdU16(blob, 28) = 0
        /\ RdU32(blob, 18) = 20
        /\ RdU32(blob, 22) = 20
        /\ LocalData(blob, 0) = MIMETYPE_CONTENT
        /\ Bytes(blob, 0, 58) =
             <<80, 75, 3, 4, 20, 0, 0, 0, 0, 0, 0, 0, 0, 0, 111, 97, 171, 44,
               20, 0, 0, 0, 20, 0, 0, 0, 8, 0, 0, 0>> \o MIMETYPE_NAME \o MIMETYPE_CONTENT

\* C1 witness: an archive built for a book with a cover image and sections.
C1_Witness ==
    /\ pc = "done"
    /\ book # NULL
    /\ book.coverImage # NULL
    /\ Len(book.sections) = MaxSections
    /\ Len(Locals(blob)) = 8 + MaxSections

\* C2: the number of local file headers, the number of central-directory
\* records and both 16-bit counts of the end record all equal the number of
\* entries handed to buildZip.
C2_CountsAgree ==
    pc = "done" =>
        /\ IsEocdAt(blob, EocdPos(blob))
        /\ Len(Locals(blob)) = Len(files)
        /\ Len(Centrals(blob)) = Len(files)
        /\ RdU16(blob, EocdPos(blob) + 8) = Len(files)
        /\ RdU16(blob, EocdPos(blob) + 10) = Len(files)

\* C2 witness: an archive of several entries has been built.
C2_Witness == pc = "done" /\ Len(files) = MaxFiles /\ Len(Centrals(blob)) = MaxFiles

\* C3: for every entry, the CRC stored in the local header equals the CRC
\* stored in the central record, and both are the standard CRC-32 of the
\* entry's data bytes, written as an unsigned 32-bit little-endian field.
C3_CrcMatches ==
    /\ StdCrc32CheckValues
    /\ pc = "done" =>
         \A i \in 1..Len(files) :
            /\ i <= Len(Locals(blob)) /\ i <= Len(Centrals(blob))
            /\ LocalData(blob, Locals(blob)[i]) = DataBytes(files[i])
            /\ Bytes(blob, Locals(blob)[i] + 14, 4) = WordLE(StdCrc32(LocalData(blob, Locals(blob)[i])))
            /\ Bytes(blob, Centrals(blob)[i] + 16, 4) = Bytes(blob, Locals(blob)[i] + 14, 4)

\* C3 witness: an entry with multi-byte data whose CRC has its top bit set.
C3_Witness ==
    /\ pc = "done"
    /\ \E i \in 1..Len(files) :
          /\ Len(DataBytes(files[i])) = 3
          /\ i <= Len(Locals(blob))
          /\ Bytes(blob, Locals(blob)[i] + 14, 4)[4] >= 128

\* C4: the local-header offset stored in the i-th central record is the
\* position of the i-th local header, which is the sum of 30 + name length +
\* data length over the earlier entries; the central records come in the
\* order of the local entries.
C4_OffsetsMatch ==
    pc = "done" =>
        /\ Len(Locals(blob)) = Len(files)
        /\ Len(Centrals(blob)) = Len(files)
        /\ \A i \in 1..Len(files) :
              /\ RdU32(blob, Centrals(blob)[i] + 42) = Locals(blob)[i]
              /\ Locals(blob)[i] = EntryLengths(SubSeq(files, 1, i - 1))
              /\ CentralName(blob, Centrals(blob)[i]) = LocalName(blob, Locals(blob)[i])
              /\ CentralName(blob, Centrals(blob)[i]) = Utf8(files[i].name)

\* C4 witness: a later entry that follows entries with data.
C4_Witness ==
    /\ pc = "done"
    /\ Len(files) >= 2
    /\ Len(Centrals(blob)) = Len(files)
    /\ Len(DataBytes(files[1])) > 0
    /\ RdU32(blob, Centrals(blob)[Len(files)] + 42) > 30

\* C5: the end record's directory offset is the total length of the local
\* headers and data, its directory size is the sum of 46 + name length, and
\* offset + size + 22 is the length of the archive.
C5_EocdMatches ==
    pc = "done" =>
        /\ IsEocdAt(blob, EocdPos(blob))
        /\ RdU32(blob, EocdPos(blob) + 16) = EntryLengths(files)
        /\ RdU32(blob, EocdPos(blob) + 16) = LocalsEnd(blob, 0)
        /\ RdU32(blob, EocdPos(blob) + 12) = RecordLengths(files)
        /\ RdU32(blob, EocdPos(blob) + 16) + RdU32(blob, EocdPos(blob) + 12) + 22 = Len(blob)

\* C5 witness: an archive whose entries have names of more than one byte.
C5_Witness ==
    /\ pc = "done"
    /\ Len(files) >= 2
    /\ RdU32(blob, EocdPos(blob) + 12) > 46 * Len(files) + Len(files)


-----------------------------------------------------------------------------
(* The table-of-contents page resolver (part_001 262-332).                  *)

\* The script has left the pass loop of a book with a table of contents.
ScriptDone == HasToc(book) /\ pc \in {"timer", "printed"}

RECURSIVE Resolve(_, _, _, _)
\* What #toc-entries holds after n more passes on a layout where it holds toc.
Resolve(b, lay, toc, n) ==
    IF n = 0 THEN toc ELSE Resolve(b, lay, PassResult(b, lay, toc), n - 1)

ScriptCanStep ==
    \/ pc \in {"fonts", "raf1", "raf2", "timer"}
    \/ pc = "pass" /\ pass < 3

\* C7: on a book with a table of contents the script makes exactly three
\* passes, each one measuring only after the two animation frames that follow
\* the previous pass, prints at most once and only after the third pass and
\* its two frames, and is never left without a next step before it has printed.
C7_ThreePassesThenPrint ==
    HasToc(book) =>
        /\ prints <= 1
        /\ Len(history) <= 3
        /\ \A k \in 1..Len(history) : history[k].frames = 2 * (k - 1)
        /\ prints = 1 => (pc = "printed" /\ Len(history) = 3 /\ pass = 3 /\ frames = 6)
        /\ pc = "timer" => (Len(history) = 3 /\ frames = 6)
        /\ pc \in {"fonts", "pass", "raf1", "raf2", "timer"} => ScriptCanStep

\* The script has printed a book with a table of contents.
C7_Witness == HasToc(book) /\ pc = "printed" /\ prints = 1 /\ frames = 6

\* The least n >= 1 with n content heights covering h pixels.
SpanOf(h, contentH10) ==
    CHOOSE n \in 1..(h + 1) :
        /\ n * contentH10 >= 10 * h
        /\ n = 1 \/ (n - 1) * contentH10 < 10 * h

HasCover(b) == b.coverImage # NULL

\* The pages unit u (the cover, then the sections in order) takes when the
\* units measure hs.
UnitSpan(b, hs, u) ==
    IF HasCover(b) /\ u = 1 THEN 1 ELSE SpanOf(hs[u], ContentHeightPx10(b.template))

RECURSIVE StartPage(_, _, _)
StartPage(b, hs, u) == IF u = 1 THEN 1 ELSE StartPage(b, hs, u - 1) + UnitSpan(b, hs, u - 1)

\* Element u of nodes can have an entry: a section other than the table of
\* contents being filled, carrying a non-empty data-toc-title.
Listed(nodes, tocIndex, u) ==
    /\ nodes[u].cls # "cover-page"
    /\ u # tocIndex
    /\ nodes[u].hasTocTitle
    /\ nodes[u].tocTitle # <<>>

RECURSIVE ListedUpTo(_, _, _)
\* The listed elements among the first n, in document order.
ListedUpTo(nodes, tocIndex, n) ==
    IF n = 0 THEN <<>>
    ELSE IF Listed(nodes, tocIndex, n)
         THEN Append(ListedUpTo(nodes, tocIndex, n - 1), n)
         ELSE ListedUpTo(nodes, tocIndex, n - 1)

ListedUnits(b, n) == ListedUpTo(BodyElements(b), TocSectionIndex(BodyElements(b)), n)

\* C8: in every pass the entries are those of the listed units in document
\* order, and the page of each is 1 plus the pages of all the units before
\* it, where the cover takes exactly 1 page and any other unit
\* max(1, ceil(offsetHeight / content height)) pages.
C8_PageArithmetic ==
    \A k \in 1..Len(history) :
        LET E  == history[k].entries
            hs == history[k].heights
            L  == ListedUnits(book, Len(hs))
        IN  /\ Len(hs) = Len(book.sections) + (IF HasCover(book) THEN 1 ELSE 0)
            /\ Len(E) = Len(L)
            /\ \A j \in 1..Len(E) : E[j].page = StartPage(book, hs, L[j])

\* A pass over a book with a cover whose page is taller than the content
\* area, with an entry after a unit of several pages and one after a unit of
\* no height.
C8_Witness ==
    /\ HasCover(book)
    /\ layout.coverH * 10 > ContentHeightPx10(book.template)
    /\ Len(history) = 3
    /\ \E j \in 1..Len(tocHTML) : tocHTML[j].page >= 5
    /\ \E u \in 1..Len(history[3].heights) : history[3].heights[u] = 0

\* title is "copyright" up to the case of its letters.
IsCopyrightAnyCase(title) ==
    /\ Len(title) = 9
    /\ \A i \in 1..9 : title[i] \in { <<99, 111, 112, 121, 114, 105, 103, 104, 116>>[i],
                                      <<67, 79, 80, 89, 82, 73, 71, 72, 84>>[i] }

RemoveAt(s, i) == SubSeq(s, 1, i - 1) \o SubSeq(s, i + 1, Len(s))

\* The unit of section i.
UnitOf(b, i) == IF HasCover(b) THEN i + 1 ELSE i

\* C9: a section titled "Copyright" in any letter case has no entry in any
\* pass, yet its pages are counted: against the same document without that
\* section, the entries are the same, those before it on the same pages and
\* those after it later by the pages the section takes.
C9_CopyrightCountedNotListed ==
    \A k \in 1..Len(history) :
        LET E  == history[k].entries
            hs == history[k].heights
        IN  /\ \A j \in 1..Len(E) : ~IsCopyrightAnyCase(E[j].title)
            /\ \A c \in 1..Len(book.sections) :
                  IsCopyrightAnyCase(book.sections[c].title) =>
                     LET u      == UnitOf(book, c)
                         less   == [book EXCEPT !.sections = RemoveAt(book.sections, c)]
                         F      == computeEntries(BodyElements(less), RemoveAt(hs, u),
                                                  ContentHeightPx10(book.template))
                         before == Len(ListedUnits(book, u - 1))
                         span   == UnitSpan(book, hs, u)
                     IN  /\ span >= 1
                         /\ Len(E) = Len(F)
                         /\ \A j \in 1..Len(E) :
                               /\ E[j].title = F[j].title
                               /\ E[j].page = F[j].page + (IF j > before THEN span ELSE 0)

\* A pass over a book where a "Copyright" section of two pages stands before
\* a section that has an entry.
C9_Witness ==
    /\ Len(history) = 3
    /\ \E c \in 1..Len(book.sections) :
          /\ book.sections[c].title = <<67, 111, 112, 121, 114, 105, 103, 104, 116>>
          /\ UnitSpan(book, history[3].heights, UnitOf(book, c)) = 2
          /\ Len(tocHTML) > Len(ListedUnits(book, UnitOf(book, c) - 1))

\* C10: in every pass every section of type chapter has an entry carrying
\* its title and its chapter ordinal, whatever its title or content.
C10_EveryChapterListed ==
    \A k \in 1..Len(history) :
        \A i \in 1..Len(book.sections) :
            book.sections[i].type = "chapter" =>
                \E j \in 1..Len(history[k].entries) :
                    /\ history[k].entries[j].title = book.sections[i].title
                    /\ history[k].entries[j].chapter = ChapterCount(book.sections, i)


-----------------------------------------------------------------------------
(* Chapter ordinals.                                                        *)

\* The chapter-type sections among the first i.
ChaptersUpTo(secs, i) == { j \in 1..i : secs[j].type = "chapter" }

\* The section files an export has pushed, in section order.
PushedSectionFiles ==
    SubSeq(files, Len(files) - Len(book.sections) + 1, Len(files))

\* C11: the ordinal of a chapter section is the number of chapter-type
\* sections up to and including it. The PDF export computes it for every
\* chapter, listed in the table of contents or not, and with or without the
\* chapterNumbers toggle; the toggle only decides whether the same number is
\* shown above the title, in the PDF and in the EPUB section file.
C11_ChapterOrdinal ==
    \A i \in 1..Len(book.sections) :
        LET sec == book.sections[i]
            n   == Cardinality(ChaptersUpTo(book.sections, i))
            el  == BodyElements(book)[UnitOf(book, i)]
        IN  /\ sec.type = "chapter" =>
                 /\ TocNum(book.sections, i) = n
                 /\ n >= 1
                 /\ el.hasTocTitle => el.tocChapter = n
                 /\ ~isEpigraphSec(sec) => el.number = (IF book.chapterNumbers THEN n ELSE 0)
                 /\ (pc \in {"zip", "done"} /\ ~isEpigraphSec(sec)) =>
                       PushedSectionFiles[i].content
                         = buildChapterXHTML(sec, IF book.chapterNumbers THEN n ELSE 0)
            /\ sec.type # "chapter" =>
                 /\ TocNum(book.sections, i) = 0
                 /\ el.tocChapter = 0 /\ el.number = 0

\* An export with chapter numbers shown, of a book whose second chapter
\* follows a chapter left out of the table of contents.
C11_Witness ==
    /\ pc = "zip"
    /\ book.chapterNumbers
    /\ Len(book.sections) = 2
    /\ book.sections[1].type = "chapter" /\ ~shouldIncludeInToc(book.sections[1])
    /\ book.sections[2].type = "chapter" /\ shouldIncludeInToc(book.sections[2])
    /\ BodyElements(book)[UnitOf(book, 2)].tocChapter = 2
    /\ PushedSectionFiles[2].content = buildChapterXHTML(book.sections[2], 2)


\* No section of b is a table of contents.
NoTocSection(b) == \A i \in 1..Len(b.sections) : ~isTocSection(b.sections[i])

\* C12: for a book without a table-of-contents section the popup runs no
\* measuring or rendering pass and waits for no animation frame; its only
\* step is the timer that prints, which fires once. The export raises nothing
\* on that account: the only other outcome is a blocked popup.
C12_NoTocNoPagination ==
    NoTocSection(book) =>
        /\ pc \in {"idle", "blocked", "timer", "printed"}
        /\ history = <<>> /\ tocHTML = <<>> /\ pass = 0 /\ frames = 0
        /\ pc = "printed" <=> prints = 1
        /\ pc # "printed" => prints = 0
        /\ pc = "timer" => ScriptCanStep

\* A book with sections but no table of contents has printed.
C12_Witness ==
    /\ NoTocSection(book)
    /\ Len(book.sections) = MaxPdfSections
    /\ pc = "printed" /\ prints = 1 /\ history = <<>>


\* C13: the export of a book whose sections list is empty is rejected: it
\* collects no files and yields no archive.
C13_EmptyBookRejected ==
    book.sections = <<>> => (pc = "idle" /\ files = <<>> /\ blob = <<>>)


-----------------------------------------------------------------------------
(* Project files: exportBookJSON and importFromFile (json.ts of the current *)
(* revision: part_004). A JavaScript value is a pair of its kind and what   *)
(* it holds; strings are TLA+ strings here, since the importer only         *)
(* compares them and tests them for emptiness.                              *)

MaxImportSections == 2   \* most sections of a book in a project file
MaxLibraryBooks == 2     \* most entries of a library file

Undefined == <<"undefined">>
JsNull == <<"null">>
Str(s) == <<"string", s>>
Num(n) == <<"number", n>>
Bool(b) == <<"boolean", b>>
Arr(seq) == <<"array", seq>>
Obj(props) == <<"object", props>>

\* typeof x
TypeOf(x) == IF x[1] \in {"object", "array", "null"} THEN "object" ELSE x[1]

\* !!x
Truthy(x) ==
    CASE x[1] \in {"undefined", "null"} -> FALSE
      [] x[1] = "string"  -> x[2] # ""
      [] x[1] = "number"  -> x[2] # 0
      [] x[1] = "boolean" -> x[2]
      [] OTHER -> TRUE

\* o.k for a value o that is neither null nor undefined
Get(o, k) == IF o[1] = "object" /\ k \in DOMAIN o[2] THEN o[2][k] ELSE Undefined

\* x ?? d
Nullish(x, d) == IF x[1] \in {"undefined", "null"} THEN d ELSE x

RECURSIVE Jsonify(_)
\* JSON.parse(JSON.stringify(x)): properties holding undefined are left out,
\* undefined array elements become null.
Jsonify(x) ==
    CASE x[1] = "object" ->
            Obj([k \in {j \in DOMAIN x[2] : x[2][j][1] # "undefined"} |-> Jsonify(x[2][k])])
      [] x[1] = "array" ->
            Arr([i \in 1..Len(x[2]) |->
                    IF x[2][i][1] = "undefined" THEN JsNull ELSE Jsonify(x[2][i])])
      [] OTHER -> x

\* What a promise settles with.
Throw(msg) == [throw |-> msg]
Ret(x) == [value |-> x]
IsThrow(r) == "throw" \in DOMAIN r

\* VALID_SECTION_TYPES (part_004 33)
VALID_SECTION_TYPES == {Str("frontmatter"), Str("chapter"), Str("backmatter")}

\* The filter predicate of validateSection (part_004 46-50).
WellShapedNote(n) ==
    /\ Truthy(n)
    /\ TypeOf(n) = "object"
    /\ Get(n, "id")[1] = "string"
    /\ Get(n, "content")[1] = "string"

\* A filter predicate that keeps every element.
KeepNotes_All(rawNotes) == rawNotes
\* rawNotes.filter(...) (part_004 45-51)
KeepNotes(rawNotes) == SelectSeq(rawNotes, WellShapedNote)

\* A content field that is always cleared.
SectionContent_Blank(s) == Str("")
\* content: typeof s.content === 'string' ? s.content : '' (part_004 57)
SectionContent(s) == IF Get(s, "content")[1] = "string" THEN Get(s, "content") ELSE Str("")

\* validateSection (part_004 35-61); idx counts from 0.
validateSection(raw, idx) ==
    IF ~Truthy(raw) \/ TypeOf(raw) # "object" THEN Throw("Section is not an object")
    ELSE IF Get(raw, "id")[1] # "string" \/ ~Truthy(Get(raw, "id"))
    THEN Throw("Section is missing a valid id")
    ELSE IF Get(raw, "title")[1] # "string" THEN Throw("Section is missing a title")
    ELSE IF Get(raw, "type") \notin VALID_SECTION_TYPES THEN Throw("Section has invalid type")
    ELSE LET rawNotes == IF Get(raw, "notes")[1] = "array" THEN Get(raw, "notes")[2] ELSE <<>>
         IN  Ret(Obj([id       |-> Get(raw, "id"),
                      type     |-> Get(raw, "type"),
                      title    |-> Get(raw, "title"),
                      subtitle |-> IF Get(raw, "subtitle")[1] = "string"
                                   THEN Get(raw, "subtitle") ELSE Undefined,
                      content  |-> SectionContent(raw),
                      order    |-> IF Get(raw, "order")[1] = "number"
                                   THEN Get(raw, "order") ELSE Num(idx),
                      notes    |-> Arr(KeepNotes(rawNotes))]))

RECURSIVE MapSections_SkipInvalid(_, _, _)
\* A map that leaves out the sections that do not validate.
MapSections_SkipInvalid(raws, i, acc) ==
    IF i > Len(raws) THEN Ret(Arr(acc))
    ELSE LET r == validateSection(raws[i], i - 1)
         IN  MapSections_SkipInvalid(raws, i + 1, IF IsThrow(r) THEN acc ELSE Append(acc, r.value))

RECURSIVE MapSections(_, _, _)
\* sections.map((s, i) => validateSection(s, i)) from element i on (part_004
\* 85, 109): the first throw ends the map.
MapSections(raws, i, acc) ==
    IF i > Len(raws) THEN Ret(Arr(acc))
    ELSE LET r == validateSection(raws[i], i - 1)
         IN  IF IsThrow(r) THEN r ELSE MapSections(raws, i + 1, Append(acc, r.value))

TEMPLATES == {Str("reedsy"), Str("classic"), Str("romance")}

\* The template of an imported book (part_004 84, 108).
ImportTemplate(x) == IF x \in TEMPLATES THEN x ELSE Str("reedsy")

\* One entry of a library file (part_004 73-95).
ImportLibraryEntry(b, now, gen) ==
    IF ~Truthy(b) \/ TypeOf(b) # "object" THEN Throw("Library entry is not a valid book")
    ELSE IF Get(b, "title")[1] # "string" THEN Throw("Library entry is missing a title")
    ELSE IF Get(b, "sections")[1] # "array" THEN Throw("Library entry is missing sections")
    ELSE LET secs == MapSections(Get(b, "sections")[2], 1, <<>>)
             keep(k, type, d) == IF Get(b, k)[1] = type THEN Get(b, k) ELSE d
         IN  IF IsThrow(secs) THEN secs
             ELSE Ret(Obj([id              |-> keep("id", "string", Str(gen)),
                           title           |-> Get(b, "title"),
                           author          |-> keep("author", "string", Str("")),
                           template        |-> ImportTemplate(Get(b, "template")),
                           sections        |-> secs.value,
                           coverImage      |-> keep("coverImage", "string", JsNull),
                           paragraphIndent |-> keep("paragraphIndent", "boolean", Bool(TRUE)),
                           chapterNumbers  |-> keep("chapterNumbers", "boolean", Bool(FALSE)),
                           dailyGoal       |-> keep("dailyGoal", "number", Num(1000)),
                           wordCountGoal   |-> keep("wordCountGoal", "number", Num(80000)),
                           goalHistory     |-> keep("goalHistory", "array", Arr(<<>>)),
                           createdAt       |-> keep("createdAt", "string", Str(now)),
                           updatedAt       |-> Str(now)]))

RECURSIVE MapLibrary(_, _, _, _, _)
\* data.books.map(...) from entry i on (part_004 73): the first throw ends it.
MapLibrary(entries, i, acc, now, gen) ==
    IF i > Len(entries) THEN Ret(Arr(acc))
    ELSE LET r == ImportLibraryEntry(entries[i], now, gen)
         IN  IF IsThrow(r) THEN r ELSE MapLibrary(entries, i + 1, Append(acc, r.value), now, gen)

\* The single-book branch (part_004 98-118).
ImportSingleBook(b, now, gen) ==
    IF Get(b, "title")[1] # "string" THEN Throw("Invalid file: missing title")
    ELSE IF Get(b, "sections")[1] # "array" THEN Throw("Invalid file: missing sections")
    ELSE LET secs == MapSections(Get(b, "sections")[2], 1, <<>>)
             or(k, d) == Nullish(Get(b, k), d)
         IN  IF IsThrow(secs) THEN secs
             ELSE Ret(Obj([id              |-> or("id", Str(gen)),
                           title           |-> Get(b, "title"),
                           author          |-> or("author", Str("")),
                           template        |-> ImportTemplate(Get(b, "template")),
                           sections        |-> secs.value,
                           coverImage      |-> or("coverImage", JsNull),
                           paragraphIndent |-> or("paragraphIndent", Bool(TRUE)),
                           chapterNumbers  |-> or("chapterNumbers", Bool(FALSE)),
                           dailyGoal       |-> or("dailyGoal", Num(1000)),
                           wordCountGoal   |-> or("wordCountGoal", Num(80000)),
                           goalHistory     |-> or("goalHistory", Arr(<<>>)),
                           createdAt       |-> or("createdAt", Str(now)),
                           updatedAt       |-> Str(now)]))

\* A file: text that JSON.parse rejects, or the value it parses to.
NotJson == [json |-> FALSE]
JsonFile(x) == [json |-> TRUE, data |-> x]

\* importFromFile (part_004 67-119): what the promise settles with.
importFromFile(f, now, gen) ==
    IF ~f.json THEN Throw("SyntaxError")
    ELSE IF f.data[1] \in {"null", "undefined"} THEN Throw("TypeError")
    ELSE IF Get(f.data, "version")[1] = "number" /\ Get(f.data, "books")[1] = "array"
    THEN MapLibrary(Get(f.data, "books")[2], 1, <<>>, now, gen)
    ELSE ImportSingleBook(f.data, now, gen)

-----------------------------------------------------------------------------
(* Books of the store, as the objects the store holds (types/index.ts), and *)
(* the files a user can pick.                                               *)

\* No book is being exported.
NoBook == JsNull

MkNote(id, content, pinned, color) ==
    Obj([id |-> Str(id), content |-> Str(content), pinned |-> Bool(pinned),
         color |-> Str(color), createdAt |-> Str("t0")])

MkSection(id, type, title, subtitle, content, order, notes) ==
    Obj([id |-> Str(id), type |-> Str(type), title |-> Str(title), subtitle |-> subtitle,
         content |-> Str(content), order |-> Num(order), notes |-> Arr(notes)])

StoreSection ==
    { MkSection("s1", "chapter", "One", Undefined, "doc", 0, <<>>),
      MkSection("s2", "frontmatter", "", Str("Sub"), "epigraph", 1,
                << MkNote("n1", "", TRUE, "yellow"), MkNote("n2", "x", FALSE, "pink") >>),
      MkSection("s3", "backmatter", "Index", Undefined, "", 5,
                << MkNote("n1", "x", FALSE, "blue") >>) }

StoreBook ==
    { Obj([id |-> Str("b1"), title |-> Str(t), author |-> Str("A"),
           template |-> Str("classic"), sections |-> Arr(secs), coverImage |-> c,
           paragraphIndent |-> Bool(FALSE), chapterNumbers |-> n,
           dailyGoal |-> Num(500), wordCountGoal |-> Num(1), goalHistory |-> Arr(<<>>),
           createdAt |-> Str("t0"), updatedAt |-> Str("t0")]) :
        t \in {"", "T"}, secs \in SeqsUpTo(StoreSection, MaxImportSections),
        c \in {JsNull, Str("data:image/png;base64,")}, n \in {Undefined, Bool(TRUE)} }

\* Notes as a file can hold them: a full note, one with id and content only,
\* one of an unknown colour, and values that are no notes.
FullNote(id) ==
    Obj([id |-> Str(id), content |-> Str("x"), pinned |-> Bool(FALSE),
         color |-> Str("green"), createdAt |-> Str("t0")])
BareNote == Obj([id |-> Str("n3"), content |-> Str("")])
PurpleNote ==
    Obj([id |-> Str("n4"), content |-> Str("x"), pinned |-> Bool(TRUE),
         color |-> Str("purple"), createdAt |-> Str("t0")])
IdOnlyNote == Obj([id |-> Str("n5")])
NumberIdNote == Obj([id |-> Num(7), content |-> Str("x")])

FileNotes ==
    { Undefined, Str("x"), Arr(<<>>),
      Arr(<< FullNote("n1"), JsNull, FullNote("n2") >>),
      Arr(<< IdOnlyNote, FullNote("n2"), Str("x"), NumberIdNote, FullNote("n1"), Arr(<<>>) >>),
      Arr(<< BareNote >>),
      Arr(<< PurpleNote, FullNote("n1") >>) }

\* A section of a file with every checked field in order, and its notes.
FileSectionWith(notes) ==
    Jsonify(Obj([id |-> Str("s1"), type |-> Str("chapter"), title |-> Str("One"),
                 content |-> Str("doc"), order |-> Num(4), notes |-> notes]))

FileSection ==
    { FileSectionWith(n) : n \in FileNotes }
    \cup { Obj([id |-> Str("s2"), type |-> Str("backmatter"), title |-> Str("")]),
           Obj([type |-> Str("chapter"), title |-> Str("One")]),
           Obj([id |-> Str(""), type |-> Str("chapter"), title |-> Str("One")]),
           Obj([id |-> Num(1), type |-> Str("chapter"), title |-> Str("One")]),
           Obj([id |-> Str("s1"), type |-> Str("chapter")]),
           Obj([id |-> Str("s1"), type |-> Str("chapter"), title |-> JsNull]),
           Obj([id |-> Str("s1"), type |-> Str("part"), title |-> Str("One")]),
           Obj([id |-> Str("s1"), title |-> Str("One")]),
           JsNull, Str("s1"), Arr(<<>>) }

FileBook(title, sections) ==
    Jsonify(Obj([id |-> Str("b2"), title |-> title, sections |-> sections]))

FileBooks ==
    { FileBook(t, s) :
        t \in {Str("T"), Undefined, Num(1)},
        s \in {Undefined, Obj([a |-> Num(1)])}
              \cup { Arr(secs) : secs \in SeqsUpTo(FileSection, MaxImportSections) } }

LibraryEntry ==
    { FileBook(Str("T"), Arr(<< FileSectionWith(Arr(<< BareNote, JsNull >>)) >>)),
      Obj([title |-> Str(""), sections |-> Arr(<<>>)]),
      FileBook(Undefined, Arr(<<>>)),
      FileBook(Str("T"), Undefined),
      FileBook(Str("T"), Arr(<< FileSectionWith(Undefined), JsNull >>)),
      JsNull,
      Str("b") }

DiskFiles ==
    { NotJson, JsonFile(JsNull), JsonFile(Num(1)), JsonFile(Arr(<<>>)),
      JsonFile(Obj([version |-> Str("1"), books |-> Arr(<<>>)])),
      JsonFile(Obj([version |-> Num(1), books |-> Obj([a |-> Num(1)])])) }
    \cup { JsonFile(b) : b \in FileBooks }
    \cup { JsonFile(Obj([version |-> Num(1), books |-> Arr(bs)])) :
             bs \in SeqsUpTo(LibraryEntry, MaxLibraryBooks) }

\* exportBookJSON (part_004 9-18): the downloaded file, as it parses.
ExportBookJSON ==
    /\ pc = "idle"
    /\ book # NoBook
    /\ fileData' = JsonFile(Jsonify(book))
    /\ pc' = "file"
    /\ UNCHANGED <<book, imported, zipVars, pdfVars, storeVars, renderVars>>


\* The user picks a file, any text whatever it holds, in a run where no book
\* is exported.
ChooseFile ==
    /\ pc = "idle"
    /\ book = NoBook
    /\ \E f \in DiskFiles : fileData' = f
    /\ pc' = "file"
    /\ UNCHANGED <<book, imported, zipVars, pdfVars, storeVars, renderVars>>

\* importFromFile settles (part_004 67-119); now is new Date().toISOString()
\* and gen what generateId() returns.
ImportFromFile ==
    /\ pc = "file"
    /\ \E now \in {"t1"}, gen \in {"g1"} :
          /\ imported' = importFromFile(fileData, now, gen)
          /\ pc' = IF IsThrow(imported') THEN "rejected" ELSE "imported"
    /\ UNCHANGED <<book, fileData, zipVars, pdfVars, storeVars, renderVars>>

InitImport ==
    /\ book \in StoreBook \cup {NoBook}
    /\ pc = "idle"
    /\ ZipIdle
    /\ PdfIdle
    /\ IoIdle
    /\ StoreIdle
    /\ RenderIdle

NextImport == ExportBookJSON \/ ChooseFile \/ ImportFromFile

SpecImport == InitImport /\ [][NextImport]_vars


-----------------------------------------------------------------------------
(* Project files: round trip and validation.                                *)

\* A book of the store was exported and the exported file imported.
ReImported == book # NoBook /\ pc \in {"imported", "rejected"}

\* C14: importing the file exportBookJSON writes for a book of the store
\* returns a book with the same id and title and the same sections in the
\* same order, each with the same id, type, title and content (and subtitle,
\* order and notes); every other field the book holds comes back as it was,
\* except updatedAt.
C14_RoundTrip ==
    ReImported =>
        /\ ~IsThrow(imported)
        /\ LET r  == imported.value
               bs == Get(book, "sections")[2]
               rs == Get(r, "sections")[2]
           IN  /\ Get(r, "id") = Get(book, "id")
               /\ Get(r, "title") = Get(book, "title")
               /\ Get(r, "sections")[1] = "array"
               /\ Len(rs) = Len(bs)
               /\ \A i \in 1..Len(bs) :
                     \A k \in {"id", "type", "title", "content", "subtitle", "order", "notes"} :
                         Get(rs[i], k) = Get(bs[i], k)
               /\ \A k \in DOMAIN book[2] \ {"sections", "updatedAt"} :
                     book[2][k] # Undefined => Get(r, k) = book[2][k]

\* A round trip of a book of two sections, one without subtitle and one with
\* notes, whose optional chapterNumbers is not set.
C14_Witness ==
    /\ ReImported
    /\ pc = "imported"
    /\ Get(book, "chapterNumbers") = Undefined
    /\ Get(imported.value, "chapterNumbers") = Bool(FALSE)
    /\ Get(imported.value, "updatedAt") # Get(book, "updatedAt")
    /\ Len(Get(book, "sections")[2]) = 2
    /\ Get(Get(book, "sections")[2][1], "subtitle") = Undefined
    /\ "subtitle" \notin DOMAIN fileData.data[2].sections[2][1][2]
    /\ Get(Get(book, "sections")[2][2], "notes")[2] # <<>>


\* x is a plain object holding a property k of kind t.
Has(x, k, t) == x[1] = "object" /\ k \in DOMAIN x[2] /\ x[2][k][1] = t

\* A section the import must refuse: not an object, or without a non-empty
\* string id, a string title, or a type among the three.
BadSection(x) ==
    ~ /\ Has(x, "id", "string") /\ x[2].id[2] # ""
      /\ Has(x, "title", "string")
      /\ Has(x, "type", "string") /\ x[2].type[2] \in {"frontmatter", "chapter", "backmatter"}

\* A book the import must refuse.
BadBook(x) ==
    \/ ~Has(x, "title", "string")
    \/ ~Has(x, "sections", "array")
    \/ \E i \in 1..Len(x[2].sections[2]) : BadSection(x[2].sections[2][i])

IsLibrary(x) == Has(x, "version", "number") /\ Has(x, "books", "array")

\* A file the import must refuse.
BadFile(f) ==
    \/ ~f.json
    \/ IF IsLibrary(f.data)
       THEN \E i \in 1..Len(f.data[2].books[2]) : BadBook(f.data[2].books[2][i])
       ELSE BadBook(f.data)

\* r is the validated form of the book raw: its title, and every one of its
\* sections, in order, each a good section with content, order and notes.
ValidatedBook(r, raw) ==
    /\ ~BadBook(r)
    /\ r[2].title = raw[2].title
    /\ Len(r[2].sections[2]) = Len(raw[2].sections[2])
    /\ \A i \in 1..Len(r[2].sections[2]) :
          LET sec == r[2].sections[2][i]
              src == raw[2].sections[2][i]
          IN  /\ \A k \in {"id", "title", "type"} : sec[2][k] = src[2][k]
              /\ Has(sec, "content", "string")
              /\ Has(sec, "order", "number")
              /\ Has(sec, "notes", "array")

\* C15: importFromFile throws exactly on the files that hold a book without
\* a string title or a sections array, or with a section that is no object
\* or lacks a non-empty string id, a string title or one of the three types
\* (in a library: any such book), and on what is no JSON object at all.
\* Otherwise it returns every book of the file, each with all its sections
\* validated: never a part of a book or of a library.
C15_AllOrNothing ==
    pc \in {"imported", "rejected"} =>
        /\ pc = "rejected" <=> IsThrow(imported)
        /\ IsThrow(imported) <=> BadFile(fileData)
        /\ ~IsThrow(imported) =>
              IF IsLibrary(fileData.data)
              THEN /\ imported.value[1] = "array"
                   /\ Len(imported.value[2]) = Len(fileData.data[2].books[2])
                   /\ \A i \in 1..Len(imported.value[2]) :
                         ValidatedBook(imported.value[2][i], fileData.data[2].books[2][i])
              ELSE ValidatedBook(imported.value, fileData.data)

\* A library is refused whose first book is good and whose second book has a
\* good first section and a bad second one.
C15_Witness ==
    /\ pc = "rejected"
    /\ book = NoBook
    /\ fileData.json
    /\ IsLibrary(fileData.data)
    /\ Len(fileData.data[2].books[2]) = 2
    /\ ~BadBook(fileData.data[2].books[2][1])
    /\ LET b == fileData.data[2].books[2][2]
       IN  /\ Has(b, "title", "string") /\ Has(b, "sections", "array")
           /\ Len(b[2].sections[2]) = 2
           /\ ~BadSection(b[2].sections[2][1])
           /\ BadSection(b[2].sections[2][2])


\* x is a Note (types/index.ts 5-11).
IsNote(x) ==
    /\ Has(x, "id", "string")
    /\ Has(x, "content", "string")
    /\ Has(x, "pinned", "boolean")
    /\ Has(x, "color", "string") /\ x[2].color[2] \in {"yellow", "blue", "green", "pink"}
    /\ Has(x, "createdAt", "string")

\* The notes of section i of the book raw of a file.
FileNotesOf(raw, i) ==
    LET sec == raw[2].sections[2][i]
    IN  IF Has(sec, "notes", "array") THEN sec[2].notes[2] ELSE <<>>

\* The imported book r holds, section by section, the Notes of the book raw
\* in their order and nothing else.
KeepsOnlyNotes(r, raw) ==
    \A i \in 1..Len(r[2].sections[2]) :
        r[2].sections[2][i][2].notes[2] = SelectSeq(FileNotesOf(raw, i), IsNote)

\* C16: notes never make importFromFile refuse a file, and the notes of an
\* imported book are the well-formed notes of the file, in their order: no
\* malformed note is stored.
C16_MalformedNotesDropped ==
    pc \in {"imported", "rejected"} =>
        /\ IsThrow(imported) <=> BadFile(fileData)
        /\ ~IsThrow(imported) =>
              IF IsLibrary(fileData.data)
              THEN \A i \in 1..Len(imported.value[2]) :
                      KeepsOnlyNotes(imported.value[2][i], fileData.data[2].books[2][i])
              ELSE KeepsOnlyNotes(imported.value, fileData.data)

-----------------------------------------------------------------------------
(* The book store (bookStore.ts): the default book, addSection,             *)
(* removeSection, renameSection, updateSectionContent, and the sidebar's    *)
(* drag and drop (computeDropResult, handleDrop, reorderSections).          *)

MaxStoreSections == 3   \* most sections the edited book holds
MaxStoreOps == 3        \* most store actions taken on one book
MaxBooks == 2           \* most books of the library
MaxNotes == 1           \* most notes of a section

TITLE_UNTITLED_BOOK == <<85, 110, 116, 105, 116, 108, 101, 100, 32, 66, 111, 111, 107>>  \* "Untitled Book"
TITLE_TITLE_PAGE == <<84, 105, 116, 108, 101, 32, 80, 97, 103, 101>>  \* "Title Page"
TITLE_CHAPTER_ONE == <<67, 104, 97, 112, 116, 101, 114, 32, 79, 110, 101>>  \* "Chapter One"
TITLE_CHAPTER_ == <<67, 104, 97, 112, 116, 101, 114, 32>>  \* "Chapter "
TITLE_FRONT_MATTER == <<70, 114, 111, 110, 116, 32, 77, 97, 116, 116, 101, 114>>  \* "Front Matter"
TITLE_BACK_MATTER == <<66, 97, 99, 107, 32, 77, 97, 116, 116, 101, 114>>  \* "Back Matter"
TITLE_EPIGRAPH == <<69, 112, 105, 103, 114, 97, 112, 104>>  \* "Epigraph"
TITLE_TOC == <<84, 97, 98, 108, 101, 32, 111, 102, 32, 67, 111, 110, 116, 101, 110, 116, 115>>  \* "Table of Contents"
TITLE_NOTES == <<78, 111, 116, 101, 115>>  \* "Notes"
TITLE_TITLE_PAGE_LOOSE == <<116, 105, 116, 108, 101, 32, 112, 97, 103, 101, 32>>  \* "title page "

\* A Section of the store: the exporters' fields and the order field.
StoreSectionOf(id, type, title, content, order) ==
    [id |-> id, type |-> type, title |-> title, content |-> content, order |-> order,
     notes |-> <<>>]

\* The ids generateId can return, as the text of a digit each.
StoreIds == {<<48 + i>> : i \in 1..MaxStoreSections}

\* The ids generateId returns for books.
BOOK_1 == <<98, 49>>  \* "b1"

\* createDefaultBook (bookStore.ts 369-402): id, id1 and id2 are what the three
\* calls of generateId return, now is the time of the call. chapterNumbers is
\* left out by the code and read as false by the exporters (?? false).
createDefaultBook(id, id1, id2, now) ==
    [id |-> id, title |-> TITLE_UNTITLED_BOOK, template |-> "reedsy", chapterNumbers |-> FALSE,
     sections |-> << StoreSectionOf(id1, "frontmatter", TITLE_TITLE_PAGE, "", 0),
                     StoreSectionOf(id2, "chapter", TITLE_CHAPTER_ONE, "", 1) >>,
     coverImage |-> NULL, dailyGoal |-> 1000, goalHistory |-> <<>>,
     createdAt |-> now, updatedAt |-> now]

\* applyBookMutation (bookStore.ts 404-413): updated is updater(s.book).
applyBookMutation(s, updated) ==
    [book |-> updated,
     allBooks |-> [i \in 1..Len(s.allBooks) |->
                     IF s.allBooks[i].id = updated.id THEN updated ELSE s.allBooks[i]]]

\* new Date() at the time of the next store action: actions are counted, and
\* the count stands for the clock.
Now == lastOp.n + 1

\* set((s) => applyBookMutation(s, updater)) with updater(s.book) = updated.
SetMutated(updated) ==
    LET r == applyBookMutation([book |-> book, allBooks |-> allBooks], updated)
    IN  book' = r.book /\ allBooks' = r.allBooks

\* The updater of the section actions: { ...b, sections, updatedAt }.
WithSections(b, sections) == [b EXCEPT !.sections = sections, !.updatedAt = Now]

\* No title given to addSection.
NoTitle == <<>>

\* The title addSection gives a section (bookStore.ts 510-520).
NewTitle(sections, type, title) ==
    IF title # NoTitle THEN title
    ELSE IF type = "chapter"
         THEN TITLE_CHAPTER_ \o Decimal(Len(SelectSeq(sections, LAMBDA s : s.type = type)) + 1)
         ELSE IF type = "frontmatter" THEN TITLE_FRONT_MATTER ELSE TITLE_BACK_MATTER

\* The order field addSection gives a section (bookStore.ts 526).
NewOrder(sections) == Len(sections)

\* addSection (bookStore.ts 508-537): the sections after it.
addSection(sections, id, type, title) ==
    Append(sections, StoreSectionOf(id, type, NewTitle(sections, type, title), "", NewOrder(sections)))

\* removeSection (bookStore.ts 539-551): the sections after it.
removeSection(sections, id) == SelectSeq(sections, LAMBDA s : s.id # id)

\* renameSection (bookStore.ts 553-560)
renameSection(sections, id, title) ==
    [i \in 1..Len(sections) |->
        IF sections[i].id = id THEN [sections[i] EXCEPT !.title = title] ELSE sections[i]]

\* updateSectionContent (bookStore.ts 566-573)
updateSectionContent(sections, id, content) ==
    [i \in 1..Len(sections) |->
        IF sections[i].id = id THEN [sections[i] EXCEPT !.content = content] ELSE sections[i]]

typeOrder == <<"frontmatter", "chapter", "backmatter">>
\* typeOrder.indexOf(t)
TypeOrderIndex(t) == (CHOOSE i \in 1..3 : typeOrder[i] = t) - 1

\* Array.prototype.findIndex by id, 0-based; -1 when there is none.
FindIndexById(sections, id) ==
    IF \E i \in 1..Len(sections) : sections[i].id = id
    THEN (CHOOSE i \in 1..Len(sections) :
             /\ sections[i].id = id
             /\ \A j \in 1..(i - 1) : sections[j].id # id) - 1
    ELSE -1

\* Array.prototype.splice(k, 0, x) on a copy: x inserted before 0-based index k.
SpliceIn(seq, k, x) == SubSeq(seq, 1, k) \o <<x>> \o SubSeq(seq, k + 1, Len(seq))

\* The dragged section, were it left in its group.
Retyped_SameType(dragged, targetType) == dragged

\* updated (bookStore.ts 838)
Retyped(dragged, targetType) == [dragged EXCEPT !.type = targetType]

\* insertAbsIdx (bookStore.ts 842-866), 0-based.
InsertAbsIdx(remaining, targetType, targetIdx) ==
    LET targetSections == SelectSeq(remaining, LAMBDA s : s.type = targetType)
        ofType == {i \in 1..Len(remaining) : remaining[i].type = targetType}
        later == {i \in 1..Len(remaining) :
                     TypeOrderIndex(remaining[i].type) > TypeOrderIndex(targetType)}
    IN  IF targetIdx >= Len(targetSections)
        THEN IF ofType = {}
             THEN IF later = {} THEN Len(remaining)
                  ELSE (CHOOSE i \in later : \A j \in later : i <= j) - 1
             ELSE CHOOSE i \in ofType : \A j \in ofType : j <= i
        ELSE FindIndexById(remaining, targetSections[targetIdx + 1].id)

\* The null computeDropResult returns: the empty list, which no drop results in.
DropNull == <<>>

\* computeDropResult (bookStore.ts 828-871)
computeDropResult(allSections, draggedId, targetType, targetIdx) ==
    IF FindIndexById(allSections, draggedId) = -1 THEN DropNull
    ELSE LET dragged == allSections[FindIndexById(allSections, draggedId) + 1]
             remaining == SelectSeq(allSections, LAMBDA s : s.id # draggedId)
         IN  SpliceIn(remaining, InsertAbsIdx(remaining, targetType, targetIdx),
                      Retyped(dragged, targetType))

\* How each exporter renders a section: buildEPUB's choice (json.ts 408-410,
\* 209-211) and the class sectionToHTML gives the PDF's section element.
EpubRendering(sec) ==
    IF isEpigraphSec(sec) THEN "epigraph"
    ELSE IF isTitlePageSection(sec) THEN "title-page" ELSE "chapter"
PdfRendering(sec) == sectionToHTML(sec, 0, 0, 0).cls

\* The section with this id (ids of the store's sections are distinct).
SectionById(sections, id) == sections[FindIndexById(sections, id) + 1]

\* What is remembered of a store action: its name, the id it acted on, the
\* section as it was, and how many actions have been taken.
Op(name, id, sections) ==
    [op |-> name, id |-> id, was |-> SectionById(sections, id), n |-> lastOp.n + 1]

\* The titles a user picks from the add menu (types/index.ts 49-66), or none.
AddTitles(type) ==
    IF type = "frontmatter" THEN {TITLE_TOC} ELSE {NoTitle}

\* The titles a user types when renaming.
RenameTitles == {TITLE_EPIGRAPH, TITLE_TITLE_PAGE_LOOSE, TITLE_NOTES}

StoreUnchanged == UNCHANGED <<pc, zipVars, pdfVars, ioVars, renderVars>>
\* What an action on the current book leaves alone.
BookActionUnchanged == StoreUnchanged /\ UNCHANGED <<currentBookId, editorVars>>

AddSection ==
    /\ pc = "store"
    /\ lastOp.n < MaxStoreOps
    /\ Len(book.sections) < MaxStoreSections
    /\ \E type \in SectionTypes, id \in StoreIds :
         \E title \in AddTitles(type) :
           /\ FindIndexById(book.sections, id) = -1
           /\ SetMutated(WithSections(book, addSection(book.sections, id, type, title)))
           /\ activeSectionId' = id
           /\ lastOp' = [op |-> "add", id |-> id, was |-> NULL, n |-> lastOp.n + 1]
    /\ BookActionUnchanged

RemoveSection ==
    /\ pc = "store"
    /\ lastOp.n < MaxStoreOps
    /\ Len(book.sections) > 1
    /\ \E i \in 1..Len(book.sections) :
         LET id == book.sections[i].id
             filtered == removeSection(book.sections, id)
         IN  /\ SetMutated(WithSections(book, filtered))
             /\ activeSectionId' = IF activeSectionId = id
                                   THEN (IF filtered # <<>> THEN filtered[1].id ELSE NoId)
                                   ELSE activeSectionId
             /\ lastOp' = Op("remove", id, book.sections)
    /\ BookActionUnchanged

RenameSection ==
    /\ pc = "store"
    /\ lastOp.n < MaxStoreOps
    /\ \E i \in 1..Len(book.sections), title \in RenameTitles :
         /\ SetMutated(WithSections(book, renameSection(book.sections, book.sections[i].id, title)))
         /\ lastOp' = Op("rename", book.sections[i].id, book.sections)
    /\ UNCHANGED activeSectionId
    /\ BookActionUnchanged

\* The epigraph editor saving its data (EpigraphEditor.tsx 58-60); it is the
\* editor of the sections isEpigraphSection accepts (Editor.tsx 359).
UpdateSectionContent ==
    /\ pc = "store"
    /\ lastOp.n < MaxStoreOps
    /\ \E i \in 1..Len(book.sections) :
         /\ isEpigraphSec(book.sections[i])
         /\ SetMutated(WithSections(book,
                updateSectionContent(book.sections, book.sections[i].id, "epigraph")))
         /\ lastOp' = Op("content", book.sections[i].id, book.sections)
    /\ UNCHANGED activeSectionId
    /\ BookActionUnchanged

\* The values of activeDragId (bookStore.ts 821, 1052, 1055): the id of a
\* section of the sidebar while it is dragged, null when something else is
\* dropped on a group.
DragIds(sections) == {sections[i].id : i \in 1..Len(sections)} \cup {NoId}

\* handleDrop (bookStore.ts 1014-1021) on position toIdx of the group of this
\* type; what was dragged is a section of any group, or no section at all.
HandleDrop ==
    /\ pc = "store"
    /\ lastOp.n < MaxStoreOps
    /\ \E draggedId \in DragIds(book.sections), type \in SectionTypes :
         \E toIdx \in 0..Len(SelectSeq(book.sections, LAMBDA s : s.type = type)) :
           LET result == computeDropResult(book.sections, draggedId, type, toIdx)
           IN  IF draggedId = NoId \/ result = DropNull
               THEN /\ UNCHANGED <<book, allBooks>>
                    /\ lastOp' = [op |-> "nodrop", id |-> draggedId, was |-> NULL, n |-> lastOp.n + 1]
               ELSE /\ SetMutated(WithSections(book, result))
                    /\ lastOp' = Op("drop", draggedId, book.sections)
    /\ UNCHANGED activeSectionId
    /\ BookActionUnchanged

\* The state the store is created with (bookStore.ts 472-478).
InitStore ==
    /\ book = createDefaultBook(BOOK_1, <<49>>, <<50>>, 0)
    /\ allBooks = <<book>>
    /\ currentBookId = book.id
    /\ activeSectionId = NoId
    /\ lastOp = NoOp
    /\ EditorIdle
    /\ pc = "store"
    /\ ZipIdle
    /\ PdfIdle
    /\ IoIdle
    /\ RenderIdle

NextStore == AddSection \/ RemoveSection \/ RenameSection \/ UpdateSectionContent \/ HandleDrop

SpecStore == InitStore /\ [][NextStore]_vars

-----------------------------------------------------------------------------
(* Special rendering under renames and moves; the walk of the exporters.   *)

\* How the two exporters render a section.
Renderings(sec) == <<EpubRendering(sec), PdfRendering(sec)>>
Special(sec) == Renderings(sec) # <<"chapter", "chapter">>

\* The epigraph payload, as the content field holds it.
Tagged(sec) == sec.content = "epigraph"

\* The last action renamed a section or dropped it somewhere.
Moved == pc = "store" /\ lastOp.op \in {"rename", "drop"}
\* The section the last action acted on, as it is now.
Acted == SectionById(book.sections, lastOp.id)

\* C17, as the specification states it: a special-rendered section is rendered
\* the same way after any rename and after any drop, into any group.
C17_KeepsRenderingAlways ==
    (Moved /\ Special(lastOp.was)) => Renderings(Acted) = Renderings(lastOp.was)

\* C17, as the code has it: classification reads the type, title and content
\* of the section alone (so neither position nor order field matters); an
\* epigraph that carries the content tag stays an epigraph for isEpigraphSec
\* and in the EPUB after any rename or drop, and in the PDF unless it has
\* become a front-matter "title page" or "table of contents"; a section that is
\* special by its title alone keeps its rendering while it stays front matter
\* under the same trimmed lower-case title, and changes rendering otherwise.
C17_KeepsRendering ==
    /\ pc = "store" =>
         \A i, j \in 1..Len(book.sections) :
            ( /\ book.sections[i].type = book.sections[j].type
              /\ book.sections[i].title = book.sections[j].title
              /\ book.sections[i].content = book.sections[j].content )
            => Renderings(book.sections[i]) = Renderings(book.sections[j])
    /\ Moved =>
         /\ Tagged(lastOp.was) =>
               /\ isEpigraphSec(Acted)
               /\ EpubRendering(Acted) = "epigraph"
               /\ (~isTitlePageSection(Acted) /\ ~isTocSection(Acted))
                     => PdfRendering(Acted) = "chapter epigraph-section"
         /\ ( /\ (Acted.type = "frontmatter") = (lastOp.was.type = "frontmatter")
              /\ NormTitle(Acted) = NormTitle(lastOp.was) )
            => Renderings(Acted) = Renderings(lastOp.was)
         /\ ( /\ Special(lastOp.was)
              /\ ~Tagged(lastOp.was)
              /\ (Acted.type # "frontmatter" \/ NormTitle(Acted) # NormTitle(lastOp.was)) )
            => Renderings(Acted) # Renderings(lastOp.was)

\* An epigraph carrying the tag was dropped into the chapters and is an epigraph still.
C17_Witness ==
    /\ Moved
    /\ lastOp.op = "drop"
    /\ Tagged(lastOp.was)
    /\ lastOp.was.type = "frontmatter"
    /\ Acted.type = "chapter"
    /\ Renderings(Acted) = <<"epigraph", "chapter epigraph-section">>

\* The ids of the sections, in array order.
WalkIds(secs) == [i \in 1..Len(secs) |-> secs[i].id]

\* The section files of the EPUB by name, and the sections behind the PDF's
\* section elements, in the order the exporters emit them.
EpubWalk(b) == [k \in 1..Len(b.sections) |-> SectionFiles(b, Len(b.sections))[k].name]
PdfWalk(b) == [k \in 1..Len(b.sections) |-> b.sections[BodyElements(b)[k].sec].id]

\* The file names and ids of sections secs, one after the other.
NamesOf(secs) == [i \in 1..Len(secs) |-> TEXT_PREFIX \o sectionFilename(secs[i])]

\* C18, as the specification states it: the exporters walk the sections in the
\* order of their order fields, ties broken by array position.
C18_WalkSortedByOrder ==
    pc = "store" =>
       /\ EpubWalk(book) = NamesOf(SortByOrder(book.sections))
       /\ PdfWalk(book) = WalkIds(SortByOrder(book.sections))

\* One store action, as C18 reads against the code.
C18_Step ==
    pc' = "store" =>
       /\ EpubWalk(book') = NamesOf(book'.sections)
       /\ PdfWalk(book') = WalkIds(book'.sections)
       /\ lastOp'.op = "add" =>
             /\ SubSeq(book'.sections, 1, Len(book.sections)) = book.sections
             /\ Len(book'.sections) = Len(book.sections) + 1
             /\ book'.sections[Len(book'.sections)].id = lastOp'.id
             /\ book'.sections[Len(book'.sections)].order = Len(book.sections)
       /\ lastOp'.op = "remove" =>
             book'.sections = SelectSeq(book.sections, LAMBDA s : s.id # lastOp'.id)
       /\ lastOp'.op = "drop" =>
             /\ SelectSeq(book'.sections, LAMBDA s : s.id # lastOp'.id)
                   = SelectSeq(book.sections, LAMBDA s : s.id # lastOp'.id)
             /\ Len(book'.sections) = Len(book.sections)
             /\ SectionById(book'.sections, lastOp'.id).order = lastOp'.was.order
       /\ lastOp'.op \in {"rename", "content"} =>
             /\ WalkIds(book'.sections) = WalkIds(book.sections)
             /\ \A i \in 1..Len(book.sections) : book'.sections[i].order = book.sections[i].order

\* C18, as the code has it: both exporters walk book.sections in array order
\* and never read the order field; addSection appends the new section with the
\* old length as its order, removeSection and a drop leave the other sections
\* in their relative order, and no action rewrites an order field.
C18_WalkInArrayOrder == [][C18_Step]_vars

\* A drop has left the array in another order than the order fields give.
C18_Witness ==
    /\ pc = "store"
    /\ lastOp.op = "drop"
    /\ WalkIds(book.sections) # WalkIds(SortByOrder(book.sections))
    /\ EpubWalk(book) = NamesOf(book.sections)

-----------------------------------------------------------------------------
(* Rendering a section body: jsonToHTML, renderNodes, renderNode, escHtml   *)
(* (json.ts 63-130), the chapter number put before it (json.ts 208, 222;    *)
(* part_001 220-221), and the text-indent rules of buildBookCSS (json.ts    *)
(* 260-289). Strings are lists of character codes; the markup is kept as    *)
(* the elements a browser parses it into, text nodes holding the escaped    *)
(* characters as written.                                                   *)

MaxBlocks == 3   \* most block nodes of a document

N_DOC == <<100, 111, 99>>  \* doc
N_PARAGRAPH == <<112, 97, 114, 97, 103, 114, 97, 112, 104>>  \* paragraph
N_HEADING == <<104, 101, 97, 100, 105, 110, 103>>  \* heading
N_BULLET_LIST == <<98, 117, 108, 108, 101, 116, 76, 105, 115, 116>>  \* bulletList
N_ORDERED_LIST == <<111, 114, 100, 101, 114, 101, 100, 76, 105, 115, 116>>  \* orderedList
N_LIST_ITEM == <<108, 105, 115, 116, 73, 116, 101, 109>>  \* listItem
N_BLOCKQUOTE == <<98, 108, 111, 99, 107, 113, 117, 111, 116, 101>>  \* blockquote
N_HORIZONTAL_RULE == <<104, 111, 114, 105, 122, 111, 110, 116, 97, 108, 82, 117, 108, 101>>  \* horizontalRule
N_HARD_BREAK == <<104, 97, 114, 100, 66, 114, 101, 97, 107>>  \* hardBreak
N_TEXT == <<116, 101, 120, 116>>  \* text
N_IMAGE == <<105, 109, 97, 103, 101>>  \* image
N_BOLD == <<98, 111, 108, 100>>  \* bold
N_ITALIC == <<105, 116, 97, 108, 105, 99>>  \* italic
N_UNDERLINE == <<117, 110, 100, 101, 114, 108, 105, 110, 101>>  \* underline
N_CALLOUT == <<99, 97, 108, 108, 111, 117, 116>>  \* callout
ENT_AMP == <<38, 97, 109, 112, 59>>  \* &amp;
ENT_LT == <<38, 108, 116, 59>>  \* &lt;
ENT_GT == <<38, 103, 116, 59>>  \* &gt;
ENT_QUOT == <<38, 113, 117, 111, 116, 59>>  \* &quot;
ENT_NBSP == <<38, 110, 98, 115, 112, 59>>  \* &nbsp;
JSON_NULL == <<110, 117, 108, 108>>  \* null
JSON_TRUE == <<116, 114, 117, 101>>  \* true
JSON_FALSE == <<102, 97, 108, 115, 101>>  \* false

\* An element with its class and child nodes, and a text node.
El(tag, cls, kids) == [tag |-> tag, cls |-> cls, text |-> <<>>, kids |-> kids]
TextNode(chars) == [tag |-> "#text", cls |-> "", text |-> chars, kids |-> <<>>]
\* The nodes a run of markup characters parses into: none when it is empty.
Markup(chars) == IF chars = <<>> THEN <<>> ELSE << TextNode(chars) >>

\* escHtml (json.ts 124-130), one character
EscChar(c) ==
    CASE c = 38 -> ENT_AMP
      [] c = 60 -> ENT_LT
      [] c = 62 -> ENT_GT
      [] c = 34 -> ENT_QUOT
      [] OTHER -> <<c>>
RECURSIVE EscRange(_, _, _)
\* The characters lo..hi of str, escaped.
EscRange(str, lo, hi) ==
    IF lo > hi THEN <<>>
    ELSE IF lo = hi THEN EscChar(str[lo])
    ELSE EscRange(str, lo, (lo + hi) \div 2) \o EscRange(str, (lo + hi) \div 2 + 1, hi)
\* escHtml (json.ts 124-130)
escHtml(str) == EscRange(str, 1, Len(str))

\* {}
EmptyObject == Obj([unset |-> Undefined])

\* !!x for the values of a parsed document, whose strings are lists of codes.
IsTruthy(x) ==
    CASE x[1] \in {"undefined", "null"} -> FALSE
      [] x[1] = "string"  -> x[2] # <<>>
      [] x[1] = "number"  -> x[2] # 0
      [] x[1] = "boolean" -> x[2]
      [] OTHER -> TRUE

\* Array.isArray(x)
IsArray(x) == x[1] = "array"
IsString(x) == x[1] = "string"
\* The elements of x when it is an array, none otherwise.
Elements(x) == IF IsArray(x) THEN x[2] ELSE <<>>

\* One mark of the loop of renderNode (json.ts 90-94).
ApplyMark(mark, result) ==
    LET type == Get(mark, "type")
    IN  IF type = Str(N_BOLD) THEN << El("strong", "", result) >>
        ELSE IF type = Str(N_ITALIC) THEN << El("em", "", result) >>
        ELSE IF type = Str(N_UNDERLINE) THEN << El("u", "", result) >>
        ELSE result
RECURSIVE ApplyMarks(_, _, _)
ApplyMarks(marks, i, result) ==
    IF i > Len(marks) THEN result ELSE ApplyMarks(marks, i + 1, ApplyMark(marks[i], result))

\* `h${lvl}` (json.ts 104-105)
HeadingTag(lvl) ==
    IF lvl[1] = "number" /\ lvl[2] \in 1..6
    THEN << "h1", "h2", "h3", "h4", "h5", "h6" >>[lvl[2]]
    ELSE "h?"

\* (node.attrs)?.src ?? '' and the like (json.ts 115-116)
ImageAttr(node, k) ==
    LET attrs == Get(node, "attrs")
    IN  IF attrs[1] \in {"undefined", "null"} THEN Str(<<>>)
        ELSE Nullish(Get(attrs, k), Str(<<>>))

\* The members of a list.
Range(seq) == {seq[i] : i \in 1..Len(seq)}

RECURSIVE NodeThrows(_)
\* renderNode(node) throws a TypeError: node is null, a mark is null, the src or
\* alt of an image has no replace method, or a child throws.
NodeThrows(node) ==
    \/ node[1] \in {"null", "undefined"}
    \/ \E child \in Range(Elements(Get(node, "content"))) : NodeThrows(child)
    \/ \E mark \in Range(Elements(Get(node, "marks"))) : mark[1] \in {"null", "undefined"}
    \/ /\ Get(node, "type") = Str(N_IMAGE)
       /\ ~IsString(ImageAttr(node, "src")) \/ ~IsString(ImageAttr(node, "alt"))

\* The paragraph of a node that has nothing in it (json.ts 100).
BlankParagraph == El("p", "blank-paragraph", << TextNode(ENT_NBSP) >>)

RECURSIVE renderNodesFrom(_, _, _)
RECURSIVE renderNode(_)
\* renderNode (json.ts 83-122), for a node it does not throw on. The style
\* attribute of an aligned block and the attributes of an image are left out.
renderNode(node) ==
    LET content == renderNodesFrom(Elements(Get(node, "content")), 1, <<>>)
        text == IF IsString(Get(node, "text")) THEN escHtml(Get(node, "text")[2]) ELSE <<>>
        attrs == Nullish(Get(node, "attrs"), EmptyObject)
        result == ApplyMarks(Elements(Get(node, "marks")), 1, Markup(text))
        type == Get(node, "type")
        either == IF content # <<>> THEN content ELSE result
    IN  CASE type = Str(N_PARAGRAPH) ->
                IF either = <<>> THEN << BlankParagraph >> ELSE << El("p", "", either) >>
          [] type = Str(N_HEADING) ->
                << El(HeadingTag(Nullish(Get(attrs, "level"), Num(2))), "", content) >>
          [] type = Str(N_BULLET_LIST) -> << El("ul", "", content) >>
          [] type = Str(N_ORDERED_LIST) -> << El("ol", "", content) >>
          [] type = Str(N_LIST_ITEM) -> << El("li", "", content) >>
          [] type = Str(N_BLOCKQUOTE) -> << El("blockquote", "", content) >>
          [] type = Str(N_HORIZONTAL_RULE) -> << El("hr", "scene-break", <<>>) >>
          [] type = Str(N_HARD_BREAK) -> << El("br", "", <<>>) >>
          [] type = Str(N_TEXT) -> result
          [] type = Str(N_IMAGE) -> << El("img", "", <<>>) >>
          [] OTHER -> either

\* renderNodes (json.ts 79-81): the renderings joined.
renderNodesFrom(nodes, i, acc) ==
    IF i > Len(nodes) THEN acc ELSE renderNodesFrom(nodes, i + 1, acc \o renderNode(nodes[i]))
renderNodes(nodes) == renderNodesFrom(nodes, 1, <<>>)

\* A content string: its characters and what JSON.parse makes of them.
PlainText(chars) == [chars |-> chars, json |-> FALSE, parsed |-> Undefined]
NoContent == PlainText(<<>>)

\* The characters of a property name.
KeyChars(k) ==
    CASE k = "type" -> <<116, 121, 112, 101>>
      [] k = "attrs" -> <<97, 116, 116, 114, 115>>
      [] k = "level" -> <<108, 101, 118, 101, 108>>
      [] k = "src" -> <<115, 114, 99>>
      [] k = "marks" -> <<109, 97, 114, 107, 115>>
      [] k = "text" -> <<116, 101, 120, 116>>
      [] k = "content" -> <<99, 111, 110, 116, 101, 110, 116>>
KeyOrder == << "type", "attrs", "level", "src", "marks", "text", "content" >>

RECURSIVE JsonChars(_)
RECURSIVE JoinChars(_, _, _)
\* The JSON texts of items, with commas between them.
JoinChars(items, i, acc) ==
    IF i > Len(items) THEN acc
    ELSE JoinChars(items, i + 1, acc \o (IF i > 1 THEN <<44>> ELSE <<>>) \o items[i])
\* A JSON text of value x, its properties written in KeyOrder; strings hold
\* no quote, backslash or control character.
JsonChars(x) ==
    CASE x[1] = "null" -> JSON_NULL
      [] x[1] = "boolean" -> IF x[2] THEN JSON_TRUE ELSE JSON_FALSE
      [] x[1] = "number" -> Decimal(x[2])
      [] x[1] = "string" -> <<34>> \o x[2] \o <<34>>
      [] x[1] = "array" ->
            <<91>> \o JoinChars([i \in 1..Len(x[2]) |-> JsonChars(x[2][i])], 1, <<>>) \o <<93>>
      [] x[1] = "object" ->
            LET keys == SelectSeq(KeyOrder, LAMBDA k : k \in DOMAIN x[2])
            IN  <<123>> \o JoinChars([i \in 1..Len(keys) |->
                                        <<34>> \o KeyChars(keys[i]) \o <<34, 58>> \o JsonChars(x[2][keys[i]])],
                                     1, <<>>) \o <<125>>

\* The content string that is a JSON text of x; JSON.parse gives x back.
JsonText(x) == [chars |-> JsonChars(x), json |-> TRUE, parsed |-> x]

\* The try block of jsonToHTML throws: JSON.parse fails, doc is null, doc.content
\* is truthy and has no map method, or a node throws (json.ts 71-76).
DocThrows(jsonStr) ==
    \/ ~jsonStr.json
    \/ jsonStr.parsed[1] = "null"
    \/ /\ IsTruthy(Get(jsonStr.parsed, "content"))
       /\ ~IsArray(Get(jsonStr.parsed, "content"))
    \/ \E node \in Range(Elements(Get(jsonStr.parsed, "content"))) : NodeThrows(node)

\* The catch of jsonToHTML (json.ts 74-76)
Caught(heading, jsonStr) == heading \o << El("p", "", Markup(escHtml(jsonStr.chars))) >>

\* jsonToHTML (json.ts 63-77)
jsonToHTML(jsonStr, title, includeHeading) ==
    LET heading == IF includeHeading THEN << El("h1", "", Markup(escHtml(title))) >> ELSE <<>>
    IN  IF jsonStr.chars = <<>> THEN heading \o << BlankParagraph >>
        ELSE IF DocThrows(jsonStr) THEN Caught(heading, jsonStr)
        ELSE heading \o renderNodes(Elements(Get(jsonStr.parsed, "content")))

\* numHtml followed by the body (json.ts 208-211, 222; part_001 220-221) of a
\* section that is no title page; chapterNum 0 stands for undefined.
SectionBody(jsonStr, title, chapterNum) ==
    (IF chapterNum # 0
     THEN << El("p", "chapter-number", Markup(Decimal(chapterNum))) >>
     ELSE <<>>)
    \o jsonToHTML(jsonStr, title, TRUE)

\* A text-indent declaration: the tag and class of the element before (""
\* when the selector names none), the tag ("*" for any) and class of the
\* element, the value in tenths of an em, !important, and the specificity.
IndentRule(prevTag, prevCls, tag, cls, value, important, specificity) ==
    [prevTag |-> prevTag, prevCls |-> prevCls, tag |-> tag, cls |-> cls,
     value |-> value, important |-> important, specificity |-> specificity]

\* pStyle (json.ts 260-264)
PStyle(paragraphIndent) ==
    IF paragraphIndent
    THEN << IndentRule("", "", "p", "", 0, FALSE, 1),
            IndentRule("p", "", "p", "", 15, FALSE, 2),
            IndentRule("h1", "", "p", "", 0, FALSE, 2),
            IndentRule("h2", "", "p", "", 0, FALSE, 2),
            IndentRule("h3", "", "p", "", 0, FALSE, 2),
            IndentRule("hr", "", "p", "", 0, FALSE, 2),
            IndentRule("hr", "scene-break", "p", "", 0, FALSE, 12),
            IndentRule("blockquote", "", "p", "", 0, FALSE, 2),
            IndentRule("ul", "", "p", "", 0, FALSE, 2),
            IndentRule("ol", "", "p", "", 0, FALSE, 2) >>
    ELSE << IndentRule("", "", "p", "", 0, FALSE, 1) >>

\* The rules after pStyle, were blank paragraphs given no rule of their own.
ClassRules_NoBlankRule ==
    << IndentRule("", "", "*", "chapter-number", 0, TRUE, 10),
       IndentRule("", "", "*", "title-page-author", 0, TRUE, 10),
       IndentRule("", "", "*", "epigraph-quote", 0, TRUE, 10),
       IndentRule("", "", "*", "epigraph-attribution", 0, TRUE, 10) >>

\* The text-indent rules after pStyle (json.ts 271, 278, 282, 288, 289).
ClassRules ==
    << IndentRule("", "", "p", "blank-paragraph", 0, TRUE, 11),
       IndentRule("", "", "*", "chapter-number", 0, TRUE, 10),
       IndentRule("", "", "*", "title-page-author", 0, TRUE, 10),
       IndentRule("", "", "*", "epigraph-quote", 0, TRUE, 10),
       IndentRule("", "", "*", "epigraph-attribution", 0, TRUE, 10) >>

\* The text-indent declarations of buildBookCSS, in source order.
buildBookCSS(paragraphIndent) == PStyle(paragraphIndent) \o ClassRules

\* The index of the element sibling before kids[k], 0 when there is none (the
\* + combinator passes over text nodes).
PrevElement(kids, k) ==
    LET before == {j \in 1..(k - 1) : kids[j].tag # "#text"}
    IN  IF before = {} THEN 0 ELSE CHOOSE j \in before : \A i \in before : i <= j

\* A rule's selector matches kids[k].
Matches(rule, kids, k) ==
    /\ rule.tag \in {"*", kids[k].tag}
    /\ rule.cls \in {"", kids[k].cls}
    /\ rule.prevTag # "" =>
          /\ PrevElement(kids, k) # 0
          /\ kids[PrevElement(kids, k)].tag = rule.prevTag
          /\ rule.prevCls \in {"", kids[PrevElement(kids, k)].cls}

\* The cascade: !important first, then specificity, then source order.
Weight(rules, i) ==
    (IF rules[i].important THEN 10000 ELSE 0) + rules[i].specificity * 100 + i

\* The text-indent kids[k] is shown with under the rules: the heaviest matching
\* declaration's, the initial 0 when none matches.
TextIndent(rules, kids, k) ==
    LET matching == {i \in 1..Len(rules) : Matches(rules[i], kids, k)}
    IN  IF matching = {} THEN 0
        ELSE rules[CHOOSE i \in matching :
                      \A j \in matching : Weight(rules, j) <= Weight(rules, i)].value

\* Inputs.
TEXT_PLAIN == <<84, 111, 109, 32, 38, 32, 34, 74, 101, 114, 114, 121, 34, 32, 60, 51>>  \* Tom & "Jerry" <3
TEXT_WORD == <<97, 60, 98>>  \* a<b
SectionTitle == <<82, 38, 68>>  \* R&D

TextOf(chars) == Obj([type |-> Str(N_TEXT), text |-> Str(chars)])
BoldTextOf(chars) ==
    Obj([type |-> Str(N_TEXT), text |-> Str(chars), marks |-> Arr(<< Obj([type |-> Str(N_BOLD)]) >>)])
ParagraphOf(kids) == Obj([type |-> Str(N_PARAGRAPH), content |-> Arr(kids)])
OneParagraph == ParagraphOf(<< BoldTextOf(TEXT_WORD) >>)

\* The block nodes documents are made of.
GoodBlocks ==
    { OneParagraph,
      Obj([type |-> Str(N_PARAGRAPH)]),
      Obj([type |-> Str(N_HEADING), content |-> Arr(<< TextOf(TEXT_WORD) >>)]),
      Obj([type |-> Str(N_HEADING), attrs |-> Obj([level |-> Num(4)]),
           content |-> Arr(<< TextOf(TEXT_WORD) >>)]),
      Obj([type |-> Str(N_HORIZONTAL_RULE)]),
      Obj([type |-> Str(N_BLOCKQUOTE), content |-> Arr(<< OneParagraph, OneParagraph >>)]),
      Obj([type |-> Str(N_BULLET_LIST),
           content |-> Arr(<< Obj([type |-> Str(N_LIST_ITEM),
                                   content |-> Arr(<< OneParagraph >>)]) >>)]),
      Obj([type |-> Str(N_CALLOUT), text |-> Str(TEXT_WORD)]),
      Obj([type |-> Str(N_IMAGE), attrs |-> Obj([src |-> Str(TEXT_WORD)])]) }

\* Nodes renderNode throws on.
BadBlocks ==
    { JsNull,
      Obj([type |-> Str(N_IMAGE), attrs |-> Obj([src |-> Num(7)])]) }

Blocks == GoodBlocks \cup BadBlocks

\* The lists of at most n blocks.
BlockLists(n) == UNION { [1..m -> Blocks] : m \in 0..n }

DocOf(blocks) == Obj([type |-> Str(N_DOC), content |-> Arr(blocks)])

\* JSON values that are no document with a content list.
OtherJson ==
    { JsNull, Num(2024), Num(0), Bool(TRUE), Str(TEXT_WORD), Arr(<<>>),
      Obj([type |-> Str(N_DOC)]),
      Obj([type |-> Str(N_DOC), content |-> Str(TEXT_WORD)]),
      Obj([type |-> Str(N_DOC), content |-> Num(0)]) }

ContentStrings ==
    { NoContent, PlainText(TEXT_PLAIN) }
    \cup { JsonText(x) : x \in OtherJson }
    \cup { JsonText(DocOf(blocks)) : blocks \in BlockLists(MaxBlocks) }

\* exportEPUB or exportPDF renders the body of one section.
RenderSection ==
    /\ pc = "render"
    /\ render.html = <<>>
    /\ render' = [render EXCEPT
                     !.html = SectionBody(render.content, render.title, render.chapterNum),
                     !.css = buildBookCSS(render.paragraphIndent)]
    /\ UNCHANGED <<book, pc, zipVars, pdfVars, ioVars, storeVars>>

InitRender ==
    /\ render \in [content : ContentStrings, title : {SectionTitle}, chapterNum : {0, 1},
                   paragraphIndent : BOOLEAN, html : {<<>>}, css : {<<>>}]
    /\ book = NoBook
    /\ pc = "render"
    /\ ZipIdle
    /\ PdfIdle
    /\ IoIdle
    /\ StoreIdle

NextRender == RenderSection

SpecRender == InitRender /\ [][NextRender]_vars

-----------------------------------------------------------------------------
(* Rendering: paragraph indentation and the fallbacks of jsonToHTML.        *)

\* A section body has been rendered.
Rendered == pc = "render" /\ render.html # <<>>

RECURSIVE Containers(_)
\* Every list of sibling nodes of the markup kids: kids itself and the
\* children of each element in it, at any depth.
Containers(kids) ==
    {kids} \cup UNION { Containers(kids[i].kids) : i \in 1..Len(kids) }

\* The paragraph shows a first-line indent.
Indented(c, k) == TextIndent(render.css, c, k) > 0
\* The element before the paragraph is a paragraph.
AfterParagraph(c, k) == PrevElement(c, k) # 0 /\ c[PrevElement(c, k)].tag = "p"

\* C19, as the specification states it: with indentation enabled, a paragraph is
\* indented exactly when the sibling before it exists and is a paragraph.
C19_IndentIffAfterParagraph ==
    (Rendered /\ render.paragraphIndent) =>
       \A c \in Containers(render.html) : \A k \in 1..Len(c) :
          c[k].tag = "p" => (Indented(c, k) <=> AfterParagraph(c, k))

\* C19, as the code has it: a paragraph is indented exactly when indentation is
\* enabled, it is neither a blank paragraph nor the chapter number, and the
\* element before it among its siblings is a paragraph; so never when it is
\* first, or follows a heading, a scene break, a blockquote or a list.
C19_IndentAfterParagraph ==
    Rendered =>
       \A c \in Containers(render.html) : \A k \in 1..Len(c) :
          c[k].tag = "p" =>
             (Indented(c, k) <=>
                 /\ render.paragraphIndent
                 /\ c[k].cls = ""
                 /\ AfterParagraph(c, k))

\* A body with an indented paragraph after a paragraph, a blank paragraph after
\* a paragraph that is not indented, and a paragraph after a scene break that
\* is not indented either.
C19_Witness ==
    /\ Rendered
    /\ render.paragraphIndent
    /\ \E c \in Containers(render.html) : \E i, j, k \in 1..Len(c) :
          /\ c[i].tag = "p" /\ c[i].cls = "" /\ AfterParagraph(c, i) /\ Indented(c, i)
          /\ c[j].tag = "p" /\ c[j].cls = "blank-paragraph" /\ AfterParagraph(c, j) /\ ~Indented(c, j)
          /\ c[k].tag = "p" /\ k > 1 /\ c[k - 1].tag \in {"hr", "h1", "h2", "blockquote"} /\ ~Indented(c, k)

\* The body without the chapter number before it: what jsonToHTML returned.
Returned ==
    IF render.chapterNum # 0 THEN Tail(render.html) ELSE render.html

\* The content is no document tree: it is no JSON, or JSON of something other
\* than an object whose content, when it has one, is a list of nodes that
\* render.
NoDocumentTree(jsonStr) ==
    \/ ~jsonStr.json
    \/ jsonStr.parsed[1] # "object"
    \/ Get(jsonStr.parsed, "content")[1] \notin {"undefined", "array"}
    \/ DocThrows(jsonStr)

\* The text holds no character escHtml replaces, but as part of an entity.
Escaped(chars) ==
    \A i \in 1..Len(chars) :
       /\ chars[i] \notin {60, 62, 34}
       /\ chars[i] = 38 =>
             \E ent \in {ENT_AMP, ENT_LT, ENT_GT, ENT_QUOT} :
                /\ i + Len(ent) - 1 <= Len(chars)
                /\ SubSeq(chars, i, i + Len(ent) - 1) = ent

\* C20: jsonToHTML returns for every content string; the heading comes first in
\* every case; empty content gives the heading and a blank paragraph; content
\* that is no document tree gives the heading and one paragraph holding the
\* content, escaped.
C20_DegradesToPlainText ==
    Rendered =>
       /\ Len(Returned) >= 1
       /\ Returned[1] = El("h1", "", Markup(escHtml(render.title)))
       /\ render.content.chars = <<>> => Returned = << Returned[1], BlankParagraph >>
       /\ (render.content.chars # <<>> /\ NoDocumentTree(render.content)) =>
             /\ Len(Returned) = 2
             /\ Returned[2].tag = "p"
             /\ Returned[2].cls = ""
             /\ Len(Returned[2].kids) = 1
             /\ Returned[2].kids[1].tag = "#text"
             /\ Escaped(Returned[2].kids[1].text)
             /\ Len(Returned[2].kids[1].text) >= Len(render.content.chars)

-----------------------------------------------------------------------------
(* buildOPF (json.ts 302-339): the package document, kept as the items of   *)
(* its manifest and the idrefs of its spine, in the order they are written. *)

OEBPS_DIR == <<79, 69, 66, 80, 83, 47>>  \* "OEBPS/"
HREF_NCX == <<116, 111, 99, 46, 110, 99, 120>>  \* "toc.ncx"
HREF_CSS == <<115, 116, 121, 108, 101, 115, 47, 98, 111, 111, 107, 46, 99, 115, 115>>  \* "styles/book.css"
HREF_NAV == <<110, 97, 118, 46, 120, 104, 116, 109, 108>>  \* "nav.xhtml"
HREF_COVER_PAGE == <<84, 101, 120, 116, 47, 99, 111, 118, 101, 114, 46, 120, 104, 116, 109, 108>>  \* "Text/cover.xhtml"
HREF_COVER_IMAGE == <<73, 109, 97, 103, 101, 115, 47, 99, 111, 118, 101, 114, 46>>  \* "Images/cover."
HREF_TEXT == <<84, 101, 120, 116, 47>>  \* "Text/"
ID_NCX == <<110, 99, 120>>  \* "ncx"
ID_CSS == <<99, 115, 115>>  \* "css"
ID_NAV == <<110, 97, 118>>  \* "nav"
ID_COVER_IMAGE == <<99, 111, 118, 101, 114, 45, 105, 109, 97, 103, 101>>  \* "cover-image"
ID_COVER_PAGE == <<99, 111, 118, 101, 114, 45, 112, 97, 103, 101>>  \* "cover-page"

\* <item id=... href=... media-type=.../>
OpfItem(id, href, mediaType) == [id |-> id, href |-> href, mediaType |-> mediaType]

\* hasCover (json.ts 304)
hasCover(b) == b.coverImage # NULL

\* The cover items, were the extension always the default of the parameter.
coverManifest_DefaultExt(b, coverExt, coverMime) ==
    IF hasCover(b)
    THEN << OpfItem(ID_COVER_IMAGE, HREF_COVER_IMAGE \o EXT_JPG, coverMime),
            OpfItem(ID_COVER_PAGE, HREF_COVER_PAGE, "application/xhtml+xml") >>
    ELSE <<>>

\* coverManifest (json.ts 306-308)
coverManifest(b, coverExt, coverMime) ==
    IF hasCover(b)
    THEN << OpfItem(ID_COVER_IMAGE, HREF_COVER_IMAGE \o coverExt, coverMime),
            OpfItem(ID_COVER_PAGE, HREF_COVER_PAGE, "application/xhtml+xml") >>
    ELSE <<>>

\* manifestItems (json.ts 312-314)
manifestItems(b) ==
    [i \in 1..Len(b.sections) |->
        OpfItem(sectionId(b.sections[i]), HREF_TEXT \o sectionFilename(b.sections[i]),
                "application/xhtml+xml")]

\* coverSpine, spineItems (json.ts 316-317)
coverSpine(b) == IF hasCover(b) THEN <<ID_COVER_PAGE>> ELSE <<>>
spineItems(b) == [i \in 1..Len(b.sections) |-> sectionId(b.sections[i])]

\* The <manifest> and the <spine> of the returned document (json.ts 328-337).
buildOPF(b, coverExt, coverMime) ==
    [manifest |-> << OpfItem(ID_NCX, HREF_NCX, "application/x-dtbncx+xml"),
                     OpfItem(ID_CSS, HREF_CSS, "text/css"),
                     OpfItem(ID_NAV, HREF_NAV, "application/xhtml+xml") >>
                  \o coverManifest(b, coverExt, coverMime) \o manifestItems(b),
     spine |-> coverSpine(b) \o spineItems(b)]

\* The package document buildEPUB writes (json.ts 389-392).
PackageOf(b) ==
    LET coverMime == IF b.coverImage # NULL THEN coverMimeType(b.coverImage) ELSE "image/jpeg"
    IN  buildOPF(b, coverExtension(coverMime), coverMime)

-----------------------------------------------------------------------------
(* Claim of the package document. *)

\* The archive path an href of the package document resolves to: hrefs are
\* relative to the directory of OEBPS/content.opf.
Resolved(href) == OEBPS_DIR \o href

StartsWith(s, prefix) == Len(s) >= Len(prefix) /\ SubSeq(s, 1, Len(prefix)) = prefix

\* The content files of the archive: under OEBPS/, the package document aside.
ContentFiles ==
    {files[i].name : i \in {j \in 1..Len(files) :
                               StartsWith(files[j].name, OEBPS_DIR) /\ files[j].name # OPF_NAME}}

\* The archive paths of the manifest items an idref names.
ItemPaths(opf, idref) ==
    {Resolved(opf.manifest[i].href) : i \in {j \in 1..Len(opf.manifest) : opf.manifest[j].id = idref}}

\* C21: once buildEPUB has collected its files, the manifest of the package
\* document lists exactly the files of the archive under OEBPS/ other than
\* the package document (style sheet, nav, NCX, one file per section, cover
\* page and cover image exactly when the book has a cover), and the spine is
\* the cover page, if any, followed by one itemref per section in document
\* order, each naming the manifest item of that section's file.
C21_ManifestMatchesArchive ==
    pc \in {"zip", "done"} =>
        LET opf    == PackageOf(book)
            listed == {Resolved(opf.manifest[i].href) : i \in 1..Len(opf.manifest)}
            c      == IF book.coverImage # NULL THEN 1 ELSE 0
            n      == Len(book.sections)
        IN  /\ listed = ContentFiles
            /\ {NCX_NAME, NAV_NAME, CSS_NAME} \subseteq listed
            /\ Len(opf.manifest) = 3 + 2 * c + n
            /\ (COVER_PAGE_NAME \in listed) <=> (book.coverImage # NULL)
            /\ (\E i \in 1..Len(opf.manifest) : opf.manifest[i].id = ID_COVER_IMAGE)
                   <=> (book.coverImage # NULL)
            /\ book.coverImage # NULL =>
                   ItemPaths(opf, ID_COVER_IMAGE) = {files[8].name}
            /\ Len(opf.spine) = c + n
            /\ c = 1 => ItemPaths(opf, opf.spine[1]) = {COVER_PAGE_NAME}
            /\ \A i \in 1..n :
                   ItemPaths(opf, opf.spine[c + i]) = {PushedSectionFiles[i].name}

\* A finished archive of a book with a PNG cover and two sections of
\* different ids, the first an epigraph.
C21_Witness ==
    /\ pc = "done"
    /\ book.coverImage # NULL /\ coverMimeType(book.coverImage) = "image/png"
    /\ Len(book.sections) = 2
    /\ book.sections[1].id # book.sections[2].id
    /\ isEpigraphSec(book.sections[1])
    /\ Len(PackageOf(book).manifest) = 7
    /\ PackageOf(book).spine[1] = ID_COVER_PAGE

-----------------------------------------------------------------------------
(* Claim of the blocked print window. *)

\* C22: when window.open returns null, exportPDF shows one alert that tells
\* the user to allow popups and returns: no document is written, nothing is
\* measured or printed, window.open is not called again, and the export takes
\* no further step.
C22_BlockedPopupReported ==
    /\ [](pc = "blocked" =>
             /\ win = [opens |-> 1, alerts |-> <<ALLOW_POPUPS>>, writes |-> 0]
             /\ prints = 0 /\ history = <<>> /\ tocHTML = <<>> /\ pass = 0 /\ frames = 0)
    /\ [](win.alerts # <<>> => pc = "blocked")
    /\ [][pc = "blocked" => FALSE]_vars

\* The popup of a book with a table of contents was blocked.
C22_Witness ==
    /\ pc = "blocked"
    /\ HasToc(book)
    /\ win.alerts = <<ALLOW_POPUPS>>

-----------------------------------------------------------------------------
(* The library of the store (bookStore.ts 480-505, 575-655, 692-771):       *)
(* metadata, notes and goals of the current book, openBook, createBook,     *)
(* deleteBook, importBook behind the file picker of the library, migrate.   *)

\* The ids generateId returns at the time of an action: one for a book or a
\* note, two more for the sections of a default book. No two calls return the
\* same id.
GenId == <<103, 48 + Now>>             \* "g1", "g2", ...
GenSectionId(k) == GenId \o <<48 + k>>  \* "g11", "g12", ...

\* today() (bookStore.ts 365-367); the runs of the model stay within one day.
Today == "d1"

\* The updaters of setBookTitle and setDailyGoal (bookStore.ts 480-481, 633-634).
setBookTitle(b, title) == [b EXCEPT !.title = title, !.updatedAt = Now]
setDailyGoal(b, words) == [b EXCEPT !.dailyGoal = words]

\* addNote (bookStore.ts 575-592): the sections after it.
addNote(sections, secId, noteId, content) ==
    [i \in 1..Len(sections) |->
        IF sections[i].id = secId
        THEN [sections[i] EXCEPT !.notes =
                 Append(@, [id |-> noteId, content |-> content, pinned |-> FALSE,
                            color |-> "yellow", createdAt |-> Now])]
        ELSE sections[i]]

\* deleteNote (bookStore.ts 606-617): the sections after it.
deleteNote(sections, secId, noteId) ==
    [i \in 1..Len(sections) |->
        IF sections[i].id = secId
        THEN [sections[i] EXCEPT !.notes = SelectSeq(@, LAMBDA n : n.id # noteId)]
        ELSE sections[i]]

\* newHistory of updateDailyProgress (bookStore.ts 639-654), from the book
\* get() returns.
NewHistory(b, words) ==
    IF \E i \in 1..Len(b.goalHistory) : b.goalHistory[i].date = Today
    THEN LET existingIdx == CHOOSE i \in 1..Len(b.goalHistory) :
                               /\ b.goalHistory[i].date = Today
                               /\ \A j \in 1..(i - 1) : b.goalHistory[j].date # Today
         IN  [i \in 1..Len(b.goalHistory) |->
                 IF i = existingIdx THEN [b.goalHistory[i] EXCEPT !.wordsWritten = words]
                 ELSE b.goalHistory[i]]
    ELSE Append(b.goalHistory, [date |-> Today, target |-> b.dailyGoal, wordsWritten |-> words])

\* found.sections[0]?.id ?? null
FirstSectionId(b) == IF b.sections # <<>> THEN b.sections[1].id ELSE NoId

\* allBooks.find((b) => b.id === id), as the index of the book; 0 for undefined.
FindBook(books, id) ==
    IF \E i \in 1..Len(books) : books[i].id = id
    THEN CHOOSE i \in 1..Len(books) : books[i].id = id /\ \A j \in 1..(i - 1) : books[j].id # id
    ELSE 0

\* The state set by an action on the library.
Library(b, books, id, active) ==
    [book |-> b, allBooks |-> books, currentBookId |-> id, activeSectionId |-> active]
LibraryNow == Library(book, allBooks, currentBookId, activeSectionId)

\* openBook (bookStore.ts 692-702)
openBook(s, id) ==
    IF FindBook(s.allBooks, id) = 0 THEN s
    ELSE LET found == s.allBooks[FindBook(s.allBooks, id)]
         IN  Library(found, s.allBooks, id, FirstSectionId(found))

\* createBook (bookStore.ts 704-713); nb is what createDefaultBook returns.
createBook(s, nb) == Library(nb, Append(s.allBooks, nb), nb.id, FirstSectionId(nb))

\* deleteBook, were the current book kept when it is the one deleted.
deleteBook_KeepCurrent(s, id, nb) ==
    LET filtered == SelectSeq(s.allBooks, LAMBDA b : b.id # id)
    IN  IF filtered = <<>> THEN Library(nb, <<nb>>, nb.id, FirstSectionId(nb))
        ELSE [s EXCEPT !.allBooks = filtered]

\* deleteBook (bookStore.ts 715-734); nb is what createDefaultBook would return.
deleteBook(s, id, nb) ==
    LET filtered == SelectSeq(s.allBooks, LAMBDA b : b.id # id)
    IN  IF filtered = <<>> THEN Library(nb, <<nb>>, nb.id, FirstSectionId(nb))
        ELSE IF id = s.currentBookId
             THEN Library(filtered[1], filtered, filtered[1].id, FirstSectionId(filtered[1]))
             ELSE [s EXCEPT !.allBooks = filtered]

\* importBook (bookStore.ts 738-747)
importBook(s, b) ==
    Library(b,
            IF \E i \in 1..Len(s.allBooks) : s.allBooks[i].id = b.id
            THEN [i \in 1..Len(s.allBooks) |-> IF s.allBooks[i].id = b.id THEN b ELSE s.allBooks[i]]
            ELSE Append(s.allBooks, b),
            b.id, FirstSectionId(b))

\* importBookFromJSON (part_004 122-126)
importBookFromJSON(f, now, gen) ==
    LET result == importFromFile(f, now, gen)
    IN  IF IsThrow(result) THEN result
        ELSE IF result.value[1] = "array" THEN Throw("File is a library (.djlib), not a single book")
        ELSE result

\* migrate (bookStore.ts 753-771) of a state persisted by a version that kept
\* one book and no library; gen is what generateId returns.
migrate(persisted, version, gen) ==
    IF version < 3
    THEN LET b == IF persisted.book.id = NoId THEN [persisted.book EXCEPT !.id = gen]
                  ELSE persisted.book
         IN  Library(b, <<b>>, b.id, persisted.activeSectionId)
    ELSE persisted

\* The characters of the strings the picked files hold.
Chars(s) ==
    CASE s = "" -> <<>>
      [] s = "b1" -> BOOK_1
      [] s = "b2" -> <<98, 50>>
      [] s = "s1" -> <<115, 49>>
      [] s = "s2" -> <<115, 50>>
      [] s = "T" -> <<84>>
      [] s = "One" -> <<79, 110, 101>>

\* The Book importFromFile returned, as the store holds it. The files picked
\* here hold no notes, no cover and no goal history.
SectionOfJs(v) ==
    [id |-> Chars(Get(v, "id")[2]), type |-> Get(v, "type")[2],
     title |-> Chars(Get(v, "title")[2]), content |-> Get(v, "content")[2],
     order |-> Get(v, "order")[2], notes |-> <<>>]
BookOfJs(v) ==
    [id |-> Chars(Get(v, "id")[2]), title |-> Chars(Get(v, "title")[2]),
     template |-> Get(v, "template")[2], chapterNumbers |-> Get(v, "chapterNumbers")[2],
     sections |-> [i \in 1..Len(Get(v, "sections")[2]) |-> SectionOfJs(Get(v, "sections")[2][i])],
     coverImage |-> NULL, dailyGoal |-> Get(v, "dailyGoal")[2], goalHistory |-> <<>>,
     createdAt |-> Get(v, "createdAt")[2], updatedAt |-> Get(v, "updatedAt")[2]]

\* Project files a user picks in the library: a book of two sections, a book
\* whose two sections have the same id, a book without sections, a file
\* without a title, a library file, and a book with the id of a book of the
\* store.
FILE_SECTION_1 == FileSectionWith(Undefined)
FILE_SECTION_2 == Obj([id |-> Str("s2"), type |-> Str("backmatter"), title |-> Str("")])
LibraryFiles ==
    { JsonFile(FileBook(Str("T"), Arr(<<FILE_SECTION_1, FILE_SECTION_2>>))),
      JsonFile(FileBook(Str("T"), Arr(<<FILE_SECTION_1, FILE_SECTION_1>>))),
      JsonFile(FileBook(Str("T"), Arr(<<>>))),
      JsonFile(FileBook(Undefined, Arr(<<FILE_SECTION_1>>))),
      JsonFile(Obj([version |-> Num(1), books |-> Arr(<<>>)])),
      JsonFile(Obj([id |-> Str("b1"), title |-> Str("T"), sections |-> Arr(<<FILE_SECTION_2>>)])) }

\* An action on the library sets these four fields of the store.
SetLibrary(s) ==
    /\ book' = s.book
    /\ allBooks' = s.allBooks
    /\ currentBookId' = s.currentBookId
    /\ activeSectionId' = s.activeSectionId

LibraryOp(name, id) == [op |-> name, id |-> id, was |-> NULL, n |-> lastOp.n + 1]
CanAct == pc = "store" /\ lastOp.n < MaxStoreOps
EditorUnchanged == StoreUnchanged /\ UNCHANGED editorVars

SetBookTitle ==
    /\ CanAct
    /\ SetMutated(setBookTitle(book, TITLE_NOTES))
    /\ lastOp' = LibraryOp("setBookTitle", book.id)
    /\ UNCHANGED activeSectionId
    /\ BookActionUnchanged

AddNote ==
    /\ CanAct
    /\ \E i \in 1..Len(book.sections) :
         /\ Len(book.sections[i].notes) < MaxNotes
         /\ SetMutated([book EXCEPT !.sections = addNote(book.sections, book.sections[i].id, GenId, "x")])
         /\ lastOp' = LibraryOp("addNote", book.sections[i].id)
    /\ UNCHANGED activeSectionId
    /\ BookActionUnchanged

DeleteNote ==
    /\ CanAct
    /\ \E i \in 1..Len(book.sections) :
         \E k \in 1..Len(book.sections[i].notes) :
            /\ SetMutated([book EXCEPT !.sections =
                   deleteNote(book.sections, book.sections[i].id, book.sections[i].notes[k].id)])
            /\ lastOp' = LibraryOp("deleteNote", book.sections[i].id)
    /\ UNCHANGED activeSectionId
    /\ BookActionUnchanged

SetDailyGoal ==
    /\ CanAct
    /\ SetMutated(setDailyGoal(book, 500))
    /\ lastOp' = LibraryOp("setDailyGoal", book.id)
    /\ UNCHANGED activeSectionId
    /\ BookActionUnchanged

\* updateDailyProgress (bookStore.ts 639-655) with the word count the goal
\* panel or the editor hands it.
UpdateDailyProgress ==
    /\ CanAct
    /\ \E words \in {0, 7} :
         SetMutated([book EXCEPT !.goalHistory = NewHistory(book, words)])
    /\ lastOp' = LibraryOp("updateDailyProgress", book.id)
    /\ UNCHANGED activeSectionId
    /\ BookActionUnchanged

OpenBook ==
    /\ CanAct
    /\ \E i \in 1..Len(allBooks) :
         /\ SetLibrary(openBook(LibraryNow, allBooks[i].id))
         /\ lastOp' = LibraryOp("openBook", allBooks[i].id)
    /\ EditorUnchanged

CreateBook ==
    /\ CanAct
    /\ Len(allBooks) < MaxBooks
    /\ SetLibrary(createBook(LibraryNow,
                             createDefaultBook(GenId, GenSectionId(1), GenSectionId(2), Now)))
    /\ lastOp' = LibraryOp("createBook", GenId)
    /\ EditorUnchanged

DeleteBook ==
    /\ CanAct
    /\ \E i \in 1..Len(allBooks) :
         /\ SetLibrary(deleteBook(LibraryNow, allBooks[i].id,
                                  createDefaultBook(GenId, GenSectionId(1), GenSectionId(2), Now)))
         /\ lastOp' = LibraryOp("deleteBook", allBooks[i].id)
    /\ EditorUnchanged

\* handleImport of the library (part_008 124-136): importBookFromJSON, then
\* importBook; a file that is refused leaves the store as it is.
ImportBook ==
    /\ CanAct
    /\ Len(allBooks) < MaxBooks
    /\ \E f \in LibraryFiles :
         LET r == importBookFromJSON(f, Now, "g")
         IN  IF IsThrow(r)
             THEN /\ UNCHANGED libVars /\ UNCHANGED book
                  /\ lastOp' = LibraryOp("importError", NoId)
             ELSE /\ SetLibrary(importBook(LibraryNow, BookOfJs(r.value)))
                  /\ lastOp' = LibraryOp("importBook", BookOfJs(r.value).id)
    /\ EditorUnchanged

\* A book persisted by a version of the store that kept no library.
PersistedBook(id) == [createDefaultBook(id, <<49>>, <<50>>, 0) EXCEPT !.title = <<84>>]

\* The store as it is created (bookStore.ts 472-478), or as it is rehydrated
\* from the state of an older version through migrate.
InitLibrary ==
    /\ \E fresh \in BOOLEAN, id \in {NoId, BOOK_1} :
         LET s == IF fresh
                  THEN LET b == createDefaultBook(BOOK_1, <<49>>, <<50>>, 0)
                       IN  Library(b, <<b>>, b.id, NoId)
                  ELSE migrate([book |-> PersistedBook(id), activeSectionId |-> <<50>>], 2, <<103, 48>>)
         IN  /\ book = s.book
             /\ allBooks = s.allBooks
             /\ currentBookId = s.currentBookId
             /\ activeSectionId = s.activeSectionId
    /\ lastOp = NoOp
    /\ EditorIdle
    /\ pc = "store"
    /\ ZipIdle
    /\ PdfIdle
    /\ IoIdle
    /\ RenderIdle

NextLibrary ==
    \/ AddSection \/ RemoveSection
    \/ SetBookTitle \/ AddNote \/ DeleteNote \/ SetDailyGoal \/ UpdateDailyProgress
    \/ OpenBook \/ CreateBook \/ DeleteBook \/ ImportBook

SpecLibrary == InitLibrary /\ [][NextLibrary]_vars

\* The sidebar's drag and drop on the books the store can hold: the default
\* book, books sections were added to, and imported books.
NextDrop == ImportBook \/ AddSection \/ HandleDrop

SpecDrop == InitStore /\ [][NextDrop]_vars

-----------------------------------------------------------------------------
(* Claims of the library. *)

\* C24: in every state of the store allBooks is not empty, holds a book with
\* the id currentBookId, and the first such book is the current book.
C24_CurrentBookInLibrary ==
    pc = "store" =>
        /\ allBooks # <<>>
        /\ FindBook(allBooks, currentBookId) # 0
        /\ allBooks[FindBook(allBooks, currentBookId)] = book
        /\ book.id = currentBookId

\* The current book was deleted from a library of two books, one of them
\* imported, after a change to it.
C24_Witness ==
    /\ pc = "store"
    /\ lastOp.op = "deleteBook" /\ lastOp.n = 3
    /\ Len(allBooks) = 1
    /\ book = allBooks[1]
    /\ book.id = <<98, 50>>

\* C25: the current book of the store always has a section.
C25_NeverEmpty ==
    pc = "store" => Len(book.sections) >= 1

\* The names of the section files buildEPUB would push for b, and the ids of
\* the manifest of its package document.
SectionPaths(b) == [i \in 1..Len(b.sections) |-> TEXT_PREFIX \o sectionFilename(b.sections[i])]
ManifestIds(b) == [i \in 1..Len(PackageOf(b).manifest) |-> PackageOf(b).manifest[i].id]
Distinct(seq) == \A i, j \in 1..Len(seq) : i # j => seq[i] # seq[j]

\* C26: the sections of the current book of the store have pairwise distinct
\* ids, and so have the section files and the manifest items of its EPUB.
C26_DistinctIds ==
    pc = "store" =>
        /\ Distinct([i \in 1..Len(book.sections) |-> book.sections[i].id])
        /\ Distinct(SectionPaths(book))
        /\ Distinct(ManifestIds(book))

-----------------------------------------------------------------------------
(* Claim of the drop. *)

\* An id no section has.
UNKNOWN_ID == <<120>>

\* How many sections have this id.
CountId(secs, id) == Cardinality({i \in 1..Len(secs) : secs[i].id = id})
Others(secs, id) == SelectSeq(secs, LAMBDA s : s.id # id)

\* The drops computeDropResult can be asked for on the current sections.
DropTargets == SectionTypes \X (0..Len(book.sections))

\* result is sections with the section of this id given the type and moved:
\* every id as often as before, the other sections as they were and in their
\* order, and the dragged section changed in its type alone.
SameSectionsRetyped(sections, result, id, type) ==
    /\ Len(result) = Len(sections)
    /\ \A i \in 1..Len(sections) : CountId(result, sections[i].id) = CountId(sections, sections[i].id)
    /\ Others(result, id) = Others(sections, id)
    /\ \A k \in 1..Len(result) :
          result[k].id = id => result[k] = [SectionById(sections, id) EXCEPT !.type = type]

\* A drop of no section leaves the store as it was.
NoDropStep ==
    lastOp'.op = "nodrop" => (book' = book /\ allBooks' = allBooks)

-----------------------------------------------------------------------------
(* The editor pane and the sidebar's cover row: the cover upload            *)
(* (Editor.tsx 194-210, bookStore.ts 1111-1123) and the debounced autosave  *)
(* of the text editor (Editor.tsx 295-331, 425-430).                        *)

COVER_SECTION_ID == <<95, 95, 99, 111, 118, 101, 114, 95, 95>>  \* "__cover__"
MAX_COVER_BYTES == 2 * 1024 * 1024

\* The files a user picks as cover: file.type and file.size.
CoverFile(type, size) == [type |-> type, size |-> size]
CoverFiles_Picked ==
    { CoverFile("image/png", n) : n \in {1, MAX_COVER_BYTES, MAX_COVER_BYTES + 1} }

\* FileReader.readAsDataURL: the data URL of the file's bytes, kept as the
\* media type and the number of bytes it encodes.
readAsDataURL(file) == [mime |-> file.type, size |-> file.size]

\* setCoverImage (bookStore.ts 496-499)
setCoverImage(b, image) == [b EXCEPT !.coverImage = image, !.updatedAt = Now]

\* `file.size > 2 * 1024 * 1024` of CoverPane.handleFile (Editor.tsx 201).
TooLarge(file) == file.size > MAX_COVER_BYTES

\* CoverPane.handleFile (Editor.tsx 198-210); the pane is what the editor
\* shows while the cover row is the active section (Editor.tsx 353).
CoverPaneHandleFile ==
    /\ CanAct
    /\ activeSectionId = COVER_SECTION_ID
    /\ reader = NoReader
    /\ \E file \in CoverFiles_Picked :
         IF TooLarge(file)
         THEN /\ reader' = reader
              /\ lastOp' = LibraryOp("coverTooLarge", book.id)
         ELSE /\ reader' = [file |-> file]
              /\ lastOp' = LibraryOp("coverRead", book.id)
    /\ UNCHANGED <<book, libVars, autosaveTimer>>
    /\ StoreUnchanged

\* CoverSection.handleFile of the sidebar (bookStore.ts 1116-1123).
CoverSectionHandleFile ==
    /\ CanAct
    /\ reader = NoReader
    /\ \E file \in CoverFiles_Picked :
         /\ reader' = [file |-> file]
         /\ lastOp' = LibraryOp("coverRead", book.id)
    /\ UNCHANGED <<book, libVars, autosaveTimer>>
    /\ StoreUnchanged

\* reader.onload of either handler: setCoverImage(ev.target.result).
ReaderOnload ==
    /\ CanAct
    /\ reader # NoReader
    /\ SetMutated(setCoverImage(book, readAsDataURL(reader.file)))
    /\ reader' = NoReader
    /\ lastOp' = LibraryOp("setCoverImage", book.id)
    /\ UNCHANGED <<currentBookId, activeSectionId, autosaveTimer>>
    /\ StoreUnchanged

\* The Remove button of the cover pane (Editor.tsx 222): setCoverImage(null).
RemoveCover ==
    /\ CanAct
    /\ activeSectionId = COVER_SECTION_ID
    /\ book.coverImage # NULL
    /\ SetMutated(setCoverImage(book, NULL))
    /\ lastOp' = LibraryOp("removeCover", book.id)
    /\ UNCHANGED activeSectionId
    /\ BookActionUnchanged

\* setActiveSection (bookStore.ts 506) from a row of the sidebar
\* (bookStore.ts 1049, 1128).
SetActiveSection ==
    /\ CanAct
    /\ \E id \in {book.sections[i].id : i \in 1..Len(book.sections)} \cup {COVER_SECTION_ID} :
         /\ id # activeSectionId
         /\ activeSectionId' = id
         /\ lastOp' = LibraryOp("setActiveSection", id)
    /\ UNCHANGED <<book, allBooks, currentBookId>>
    /\ EditorUnchanged

\* countWords(extractTextFromJSON(content)) (bookStore.ts 340-355) on the
\* contents of the model: the texts the editor saves and the empty content.
WordsIn(content) ==
    IF content = "one" THEN 1
    ELSE IF content = "one two" THEN 2
    ELSE 0

\* computeTotalWords (Editor.tsx 425-430)
RECURSIVE computeTotalWords(_, _, _)
computeTotalWords(sections, updatedId, updatedContent) ==
    IF sections = <<>> THEN 0
    ELSE WordsIn(IF Head(sections).id = updatedId
                 THEN updatedContent ELSE Head(sections).content)
         + computeTotalWords(Tail(sections), updatedId, updatedContent)

\* activeSection of EditorPane (Editor.tsx 300); called on books with a section.
activeSection(b, active) ==
    IF \E i \in 1..Len(b.sections) : b.sections[i].id = active
    THEN b.sections[CHOOSE i \in 1..Len(b.sections) :
                       /\ b.sections[i].id = active
                       /\ \A k \in 1..(i - 1) : b.sections[k].id # active]
    ELSE b.sections[1]

\* What the timer's callback closes over (Editor.tsx 326-330): activeSection,
\* json and book of the render the update happened in.
Timer(sec, json, b) == [id |-> sec.id, json |-> json, book |-> b]

\* onUpdate of the editor (Editor.tsx 322-331): the pending timer is cleared
\* and a new one is set. The text editor is shown for a section that is not
\* an epigraph, while the cover row is not active (Editor.tsx 353-359).
EditorUpdate ==
    /\ CanAct
    /\ activeSectionId # COVER_SECTION_ID
    /\ book.sections # <<>>
    /\ ~isEpigraphSec(activeSection(book, activeSectionId))
    /\ \E json \in {"one", "one two"} :
         autosaveTimer' = Timer(activeSection(book, activeSectionId), json, book)
    /\ lastOp' = LibraryOp("onUpdate", activeSection(book, activeSectionId).id)
    /\ UNCHANGED <<book, libVars, reader>>
    /\ StoreUnchanged

\* The state of the store after the timer's callback (Editor.tsx 327-329):
\* updateSectionContent, then updateDailyProgress on the book the store holds
\* by then.
Autosaved(s, t) ==
    LET s1 == applyBookMutation(s, WithSections(s.book,
                  updateSectionContent(s.book.sections, t.id, t.json)))
        totalWords == computeTotalWords(t.book.sections, t.id, t.json)
    IN  applyBookMutation(s1, [s1.book EXCEPT !.goalHistory = NewHistory(s1.book, totalWords)])

\* The timer fires, AUTOSAVE_DELAY after the last update.
AutosaveFire ==
    /\ CanAct
    /\ autosaveTimer # NoTimer
    /\ LET r == Autosaved([book |-> book, allBooks |-> allBooks], autosaveTimer)
       IN  book' = r.book /\ allBooks' = r.allBooks
    /\ autosaveTimer' = NoTimer
    /\ lastOp' = LibraryOp("autosave", autosaveTimer.id)
    /\ UNCHANGED <<currentBookId, activeSectionId, reader>>
    /\ StoreUnchanged

\* The store as it is created, or as it is rehydrated (the whole state is
\* persisted, bookStore.ts 750-752) with a second book made by createBook or
\* with the cover row active.
InitEditor ==
    /\ \E second \in BOOLEAN, active \in {NoId, COVER_SECTION_ID} :
         LET b  == createDefaultBook(BOOK_1, <<49>>, <<50>>, 0)
             b2 == createDefaultBook(<<98, 50>>, <<51>>, <<52>>, 0)
         IN  /\ book = b
             /\ allBooks = (IF second THEN <<b, b2>> ELSE <<b>>)
             /\ currentBookId = b.id
             /\ activeSectionId = active
    /\ lastOp = NoOp
    /\ EditorIdle
    /\ pc = "store"
    /\ ZipIdle
    /\ PdfIdle
    /\ IoIdle
    /\ RenderIdle

NextEditor ==
    \/ CoverPaneHandleFile \/ CoverSectionHandleFile \/ ReaderOnload \/ RemoveCover
    \/ SetActiveSection \/ EditorUpdate \/ AutosaveFire
    \/ OpenBook \/ CreateBook

SpecEditor == InitEditor /\ [][NextEditor]_vars

-----------------------------------------------------------------------------
(* The cover upload and the autosave timer.                                 *)

\* C23: every cover image of a book of the store that came from an upload
\* comes from a file of at most 2 MB (2 * 1024 * 1024 bytes): both upload
\* handlers refuse a larger file and leave coverImage as it was.
C23_UploadCapped ==
    pc = "store" =>
        \A i \in 1..Len(allBooks) :
            allBooks[i].coverImage # NULL => allBooks[i].coverImage.size <= MAX_COVER_BYTES

\* C30: when the pending autosave fires, the book it was scheduled in holds
\* the edit in the section it was scheduled for, and every other book of the
\* library is left as it was (content, updatedAt and goalHistory).
C30_AutosaveWritesOwnSection ==
    [][lastOp'.op = "autosave" =>
         /\ \A i \in 1..Len(allBooks) :
              allBooks[i].id # autosaveTimer.book.id => allBooks'[i] = allBooks[i]
         /\ \E i \in 1..Len(allBooks') :
              /\ allBooks'[i].id = autosaveTimer.book.id
              /\ \E k \in 1..Len(allBooks'[i].sections) :
                   /\ allBooks'[i].sections[k].id = autosaveTimer.id
                   /\ allBooks'[i].sections[k].content = autosaveTimer.json]_vars

-----------------------------------------------------------------------------
(* The rendering kind each exporter chooses for a section.                  *)

\* The kind buildEPUB chooses (json.ts 408-410, 209-211): the epigraph page,
\* else the generated title page, else the section's own content.
EpubKind(sec) ==
    IF EpubRendering(sec) = "epigraph" THEN "epigraph"
    ELSE IF EpubRendering(sec) = "title-page" THEN "title page" ELSE "normal"

\* The kind sectionToHTML chooses (part_001 185-213), by the class of the
\* element it returns; the placeholder of the table of contents and a regular
\* section are neither epigraph nor title page.
PdfKind(sec) ==
    IF PdfRendering(sec) = "chapter epigraph-section" THEN "epigraph"
    ELSE IF PdfRendering(sec) = "chapter title-page-section" THEN "title page" ELSE "normal"

\* C27: every section of the book is rendered as the same kind (normal,
\* epigraph, title page) by the EPUB exporter and by the PDF exporter.
C27_SameKind ==
    pc = "store" => \A i \in 1..Len(book.sections) :
                        EpubKind(book.sections[i]) = PdfKind(book.sections[i])

-----------------------------------------------------------------------------
(* The editor's preview of the table of contents (Editor.tsx 73-91) against *)
(* the entries the PDF's script computes.                                   *)

\* TOC_PREVIEW_EXCLUDED (Editor.tsx 74-77)
TOC_PREVIEW_EXCLUDED == {T_HALF_TITLE, T_TITLE_PAGE, T_COPYRIGHT, T_DEDICATION, T_EPIGRAPH, T_TOC}

\* The filter of TableOfContentsView (Editor.tsx 84-87)
PreviewListed(sec) ==
    IF HasEpigraphType(sec.content) THEN FALSE
    ELSE NormTitle(sec) \notin TOC_PREVIEW_EXCLUDED

PreviewEntry(id, title, chapterNum) == [id |-> id, title |-> title, chapterNum |-> chapterNum]

RECURSIVE PreviewEntries(_, _)
\* entries of TableOfContentsView for the first n sections (Editor.tsx
\* 82-91): chapIdx counts the chapters that passed the filter; chapterNum 0
\* stands for null.
PreviewEntries(sections, n) ==
    IF n = 0 THEN <<>>
    ELSE LET before  == PreviewEntries(sections, n - 1)
             sec     == sections[n]
             chapIdx == Cardinality({k \in 1..Len(before) : before[k].chapterNum # 0})
         IN  IF PreviewListed(sec)
             THEN Append(before, PreviewEntry(sec.id, sec.title,
                                              IF sec.type = "chapter" THEN chapIdx + 1 ELSE 0))
             ELSE before

\* What a reader sees of an entry: its title and its "Chapter n" label.
PreviewLines(b) ==
    LET E == PreviewEntries(b.sections, Len(b.sections))
    IN  [k \in 1..Len(E) |-> <<E[k].title, E[k].chapterNum>>]
PdfLines(entries) == [k \in 1..Len(entries) |-> <<entries[k].title, entries[k].chapter>>]

\* C28: the entries the PDF's script renders in any pass are the lines of the
\* editor's preview of the same book: the same titles in the same order,
\* with the same chapter number on every chapter.
C28_PreviewMatchesPdf ==
    \A k \in 1..Len(history) : PdfLines(history[k].entries) = PreviewLines(book)

====
